---- MODULE Spec2Model ----
(***************************************************************************)
(* A model of the nodepool operator's reconciliation-and-reliability core: *)
(*   - internal/reliability/retry.go : RetryOperation, CircuitBreaker      *)
(*   - internal/controller/nodepool_controller.go : Reconcile and its      *)
(*     scale-up / scale-down / deletion workflows                          *)
(* Three state machines share the module; each has its own specification   *)
(* (SpecCB / SpecCBConc, SpecRetry / FairSpecRetry, Spec) and leaves the   *)
(* variables of the others untouched.                                      *)
(***************************************************************************)
EXTENDS Integers, Sequences, FiniteSets, TLC

VARIABLES
    \* ---- CircuitBreaker (retry.go:185-191) and its callers
    cb,         \* [maxFailures, resetTimeout, failureCount, lastFailureTime, state]
    now,        \* the wall clock read by time.Now() / time.Since()
    cpc,        \* per caller: position inside CircuitBreaker.Execute
    cret,       \* per caller: what its last Execute returned
    opCalls,    \* number of times the wrapped operation was invoked
    nExec,      \* number of Execute calls made so far
    probe,      \* history, per caller: its call passed the switch with the breaker HalfOpen
    streak,     \* history: consecutive executed failures since the last success / Reset
    cload,      \* per caller: the counter value its cb.failureCount++ has read
    \* ---- RetryOperation (retry.go:61-103)
    rcfg,       \* RetryConfig
    rpc,        \* position inside RetryOperation
    attempt,    \* loop variable
    backoff,    \* local backoff
    sleepDuration, \* result of calculateBackoffWithJitter for the pending sleep
    lastErr,    \* local lastErr
    rHist,      \* history: outcome of every invocation of the operation, in order
    rSleeps,    \* history: number of completed backoff sleeps
    rResult,    \* the value RetryOperation returned
    timerFired, \* the time.After channel of the pending sleep is ready
    woken,      \* the select of the pending sleep: "poll" (not yet evaluated), "parked"
                \* (blocked, no case ready), "ctx" / "timer" (woken by that case)
    ctxDone,    \* ctx.Done() is closed
    \* ---- NodePoolReconciler.Reconcile (nodepool_controller.go:73-186)
    pspec,      \* NodePool.Spec: minNodes, maxNodes, targetNodes, autoScalingEnabled, scaleUpThreshold
    obj,        \* the stored NodePool's metadata: exists, deleting (tombstone), finalizer
    stStatus,   \* the stored NodePool.Status
    cloud,      \* the provider's servers of this pool, in listing order
    nextID,     \* the provider's next server ID
    pc,         \* position of the running pass
    np,         \* the pass's in-memory copy of the NodePool
    servers,    \* the pass's listing
    pods,       \* what calculateDesiredNodes saw when it listed the pods
    preClamp,   \* history: desiredNodes before the min/max constraints
    desiredNodes, \* the pass's desiredNodes
    idx,        \* loop variable of the scale-up / scale-down / cleanup loop
    calls,      \* history: provider calls of this pass (list, create, delete)
    fault,      \* history: the provider call that failed in this pass, if any
    ret,        \* what the pass returned: error and RequeueAfter
    passes,     \* number of passes started (counted up to MaxPasses)
    got,        \* what r.Get answered in this pass
    deleted,    \* IDs given to the provider's DeleteServer in this pass, in order
    lastDel,    \* the last run of deleteServer: its server, its steps, its outcome
    \* ---- DeadLetterQueue (dead_letter_queue.go in part_000:1389-1567)
    dlq,        \* the queue: operations (by ID), maxSize, listeners
    dmu,        \* its sync.RWMutex: the goroutine holding it for writing, those reading
    dpc,        \* per goroutine: position in its current call
    dcall,      \* per goroutine: the method called and its arguments
    dret,       \* the last return of a call: the call and the values
    notif,      \* the goroutines started by `go listener(op)`, in order
    dCalls      \* number of calls started

cbVars    == <<cb, now, cpc, cret, opCalls, nExec, probe, streak, cload>>
retryVars == <<rcfg, rpc, attempt, backoff, sleepDuration, lastErr, rHist, rSleeps, rResult,
              timerFired, woken, ctxDone>>
recVars   == <<pspec, obj, stStatus, cloud, nextID, pc, np, servers, pods, preClamp,
               desiredNodes, idx, calls, fault, ret, passes, got, deleted, lastDel>>
dlqVars   == <<dlq, dmu, dpc, dcall, dret, notif, dCalls>>
vars      == <<cbVars, retryVars, recVars, dlqVars>>

Min(a, b) == IF a < b THEN a ELSE b
Max(a, b) == IF a > b THEN a ELSE b

(***************************************************************************)
(*                            CIRCUIT BREAKER                              *)
(***************************************************************************)

\* Bounds of the breaker model.
MaxMaxFailures  == 3    \* maxFailures is drawn from 1..MaxMaxFailures
MaxResetTimeout == 2    \* resetTimeout is drawn from 0..MaxResetTimeout
MaxTime         == 6    \* the clock runs from 0 to MaxTime
NumCallers      == 2    \* goroutines that may call Execute concurrently
MaxExecCalls    == 5    \* Execute is called at most this many times in one behaviour

Callers == 1..NumCallers

\* CircuitBreakerState (retry.go:175-182)
StateClosed   == "Closed"
StateOpen     == "Open"
StateHalfOpen == "HalfOpen"

\* ErrCircuitOpen (retry.go:32), and the results of the wrapped operation
ErrCircuitOpen == "ErrCircuitOpen"
OpOK   == "ok"
OpFail == "opError"

\* NewCircuitBreaker (retry.go:210-216)
NewCircuitBreaker(mf, rt) ==
    [maxFailures |-> mf, resetTimeout |-> rt, failureCount |-> 0,
     lastFailureTime |-> 0, state |-> StateClosed]

\* The Open-state test of Execute: time.Since(cb.lastFailureTime) > cb.resetTimeout
\* (faulty variant: the timeout test written >=)
ResetTimeoutElapsedAtOrAfter(b, t) == t - b.lastFailureTime >= b.resetTimeout
ResetTimeoutElapsed(b, t) == t - b.lastFailureTime > b.resetTimeout

\* The switch at the head of Execute: TRUE when the call goes on to the operation.
\* (faulty variant: the Open state lets every call through)
AdmitsAlways(b, t) == TRUE
Admits(b, t) ==
    IF b.state = StateOpen THEN ResetTimeoutElapsed(b, t) ELSE TRUE

\* The breaker after the switch at the head of Execute.
\* (faulty variant: the counter is not reset on the way to HalfOpen)
AfterSwitchKeepsCount(b, t) ==
    IF b.state = StateOpen /\ ResetTimeoutElapsed(b, t)
    THEN [b EXCEPT !.state = StateHalfOpen]
    ELSE b
AfterSwitch(b, t) ==
    IF b.state = StateOpen /\ ResetTimeoutElapsed(b, t)
    THEN [b EXCEPT !.state = StateHalfOpen, !.failureCount = 0]
    ELSE b

\* onFailure (retry.go:246-257)
\* (faulty variant: the threshold test written >)
OnFailureStrict(b, t) ==
    LET c == [b EXCEPT !.failureCount = b.failureCount + 1, !.lastFailureTime = t]
    IN  IF c.state = StateHalfOpen THEN [c EXCEPT !.state = StateOpen]
        ELSE IF c.failureCount > c.maxFailures THEN [c EXCEPT !.state = StateOpen]
        ELSE c
\* (faulty variant: lastFailureTime recorded only when the threshold opens the breaker)
OnFailureStaleTime(b, t) ==
    LET c == [b EXCEPT !.failureCount = b.failureCount + 1]
    IN  IF c.state = StateHalfOpen THEN [c EXCEPT !.state = StateOpen]
        ELSE IF c.failureCount >= c.maxFailures
             THEN [c EXCEPT !.state = StateOpen, !.lastFailureTime = t]
        ELSE c
OnFailure(b, t) ==
    LET c == [b EXCEPT !.failureCount = b.failureCount + 1, !.lastFailureTime = t]
    IN  IF c.state = StateHalfOpen THEN [c EXCEPT !.state = StateOpen]
        ELSE IF c.failureCount >= c.maxFailures THEN [c EXCEPT !.state = StateOpen]
        ELSE c

\* onSuccess (retry.go:260-270)
OnSuccess(b) ==
    IF b.state = StateHalfOpen THEN [b EXCEPT !.state = StateClosed, !.failureCount = 0]
    ELSE IF b.state = StateClosed THEN [b EXCEPT !.failureCount = 0]
    ELSE b

\* Execute, lines 226-228: the breaker after a call is rejected; the branch only
\* returns ErrCircuitOpen.
\* (faulty variant: a rejection restarts the timeout)
AfterRejectRestartsTimeout(b, t) == [b EXCEPT !.lastFailureTime = t]
AfterReject(b, t) == b

\* Execute, lines 221-231: the switch. A rejected call returns ErrCircuitOpen at once.
ExecuteSwitch(c) ==
    /\ cpc[c] = "idle"
    /\ nExec < MaxExecCalls
    /\ nExec' = nExec + 1
    /\ IF Admits(cb, now)
       THEN /\ cb' = AfterSwitch(cb, now)
            /\ cpc' = [cpc EXCEPT ![c] = "admitted"]
            /\ cret' = [cret EXCEPT ![c] = "pending"]
            /\ probe' = [probe EXCEPT ![c] = (AfterSwitch(cb, now).state = StateHalfOpen)]
       ELSE /\ cb' = AfterReject(cb, now)
            /\ cpc' = cpc
            /\ cret' = [cret EXCEPT ![c] = ErrCircuitOpen]
            /\ probe' = probe
    /\ UNCHANGED <<now, opCalls, streak, cload, retryVars, recVars, dlqVars>>

\* Execute, line 234: the wrapped operation is invoked.
ExecuteInvoke(c) ==
    /\ cpc[c] = "admitted"
    /\ cpc' = [cpc EXCEPT ![c] = "running"]
    /\ opCalls' = opCalls + 1
    /\ UNCHANGED <<cb, now, cret, nExec, probe, streak, cload, retryVars, recVars, dlqVars>>

\* Execute, lines 236-242: the operation returned; onFailure / onSuccess.
ExecuteReturn(c) ==
    /\ cpc[c] = "running"
    /\ \E r \in {OpOK, OpFail} :
         /\ cb' = IF r = OpOK THEN OnSuccess(cb) ELSE OnFailure(cb, now)
         /\ cret' = [cret EXCEPT ![c] = r]
         /\ streak' = IF r = OpOK THEN 0 ELSE streak + 1
    /\ cpc' = [cpc EXCEPT ![c] = "idle"]
    /\ probe' = [probe EXCEPT ![c] = FALSE]
    /\ UNCHANGED <<now, opCalls, nExec, cload, retryVars, recVars, dlqVars>>

\* Reset (retry.go:278-281)
Reset ==
    /\ cb.state # StateClosed \/ cb.failureCount # 0
    /\ cb' = [cb EXCEPT !.state = StateClosed, !.failureCount = 0]
    /\ streak' = 0
    /\ UNCHANGED <<now, cpc, cret, opCalls, nExec, probe, cload, retryVars, recVars, dlqVars>>

\* onFailure without a lock, line 247: `cb.failureCount++` is a read of the counter
\* followed by a write of the value read plus one. The operation has failed; the
\* caller reads the counter.
OnFailureLoad(c) ==
    /\ cpc[c] = "running"
    /\ cpc' = [cpc EXCEPT ![c] = "failing"]
    /\ cload' = [cload EXCEPT ![c] = cb.failureCount]
    /\ UNCHANGED <<cb, now, cret, opCalls, nExec, probe, streak, retryVars, recVars, dlqVars>>

\* onFailure, lines 247-256: the write of the incremented value and the rest of
\* onFailure; Execute returns the error (line 238).
OnFailureStore(c) ==
    /\ cpc[c] = "failing"
    /\ cb' = OnFailure([cb EXCEPT !.failureCount = cload[c]], now)
    /\ cret' = [cret EXCEPT ![c] = OpFail]
    /\ streak' = streak + 1
    /\ cpc' = [cpc EXCEPT ![c] = "idle"]
    /\ probe' = [probe EXCEPT ![c] = FALSE]
    /\ cload' = [cload EXCEPT ![c] = 0]
    /\ UNCHANGED <<now, opCalls, nExec, retryVars, recVars, dlqVars>>

\* Time passes.
Tick ==
    /\ now < MaxTime
    /\ now' = now + 1
    /\ UNCHANGED <<cb, cpc, cret, opCalls, nExec, probe, streak, cload, retryVars, recVars, dlqVars>>

(***************************************************************************)
(*                            RETRY EXECUTOR                               *)
(***************************************************************************)

\* Bounds of the retry model.
MaxMaxRetries == 3      \* config.MaxRetries is drawn from 0..MaxMaxRetries

\* ErrMaxRetriesExceeded (retry.go:30) and the errors an operation may return.
ErrMaxRetriesExceeded == "ErrMaxRetriesExceeded"
CtxCanceled     == "context.Canceled"
ErrTimeout      == "timeout"
ErrConnReset    == "connection reset"
ErrUnauthorized == "unauthorized"
NoErr           == "nil"
OpErrors   == {ErrTimeout, ErrConnReset, ErrUnauthorized}
OpOutcomes == {OpOK} \cup OpErrors

\* IsRetryableError (retry.go:120-155) on the errors of the model: the messages
\* "timeout" and "connection reset" match a retryable pattern, "unauthorized" none.
IsRetryableError(e) == e \in {ErrTimeout, ErrConnReset}

\* config.RetryableErrors: nil, the default predicate, or a caller's own predicate
\* (one that accepts every error, one that accepts none).
PredNil     == "nil"
PredDefault == "IsRetryableError"
PredAlways  == "always"
PredNever   == "never"
Predicates  == {PredNil, PredDefault, PredAlways, PredNever}
PredAccepts(p, e) ==
    CASE p = PredDefault -> IsRetryableError(e)
      [] p = PredAlways  -> TRUE
      [] p = PredNever   -> FALSE
      [] OTHER           -> TRUE

\* Durations are integers (one unit of time.Duration); BackoffMultiplier is kept in
\* tenths (20 is 2.0), the jitter draw is time.Now().UnixNano() % 1000.
InitialBackoffs    == {1, 4}
MaxBackoffs        == {6}
BackoffMultipliers == {10, 20}
JitterDraws        == {0, 999}

RetryConfigs ==
    [MaxRetries : 0..MaxMaxRetries, InitialBackoff : InitialBackoffs,
     MaxBackoff : MaxBackoffs, BackoffMultiplier : BackoffMultipliers,
     RetryableErrors : Predicates]

\* time.Duration is an int64 and its addition wraps around. The model keeps the
\* wrap-around on a range scaled down to -(MaxDuration + 1) .. MaxDuration.
MaxDuration == 31      \* the largest duration of the scaled range
WrapDuration(x) == ((x + MaxDuration + 1) % (2 * MaxDuration + 2)) - (MaxDuration + 1)

\* calculateBackoffWithJitter (retry.go:106-116); n is UnixNano() % 1000.
\*   jitter = backoff * 0.25;  jitterDuration = jitter * (0.5 + n / 2000.0), truncated
calculateBackoffWithJitter(b, maxBackoff, n) ==
    LET jitterDuration == (b * (1000 + n)) \div 8000
        total == WrapDuration(b + jitterDuration)
    IN  IF total > maxBackoff THEN maxBackoff ELSE total

\* retry.go:96: time.Duration(f) of a float64 f. A value above the int64 range
\* cannot be represented and the result of the conversion is implementation-dependent
\* (Go specification, Conversions): amd64 builds give the smallest int64, arm64
\* builds the largest.
DurationOfFloat(x) ==
    IF x > MaxDuration THEN {-(MaxDuration + 1), MaxDuration} ELSE {x}

\* retry.go:96-99: the backoff for the next attempt, one value per outcome of the
\* conversion.
NextBackoffs(b, cfg) ==
    {IF nb > cfg.MaxBackoff THEN cfg.MaxBackoff ELSE nb :
        nb \in DurationOfFloat((b * cfg.BackoffMultiplier) \div 10)}

\* The values RetryOperation returns (retry.go:69, 76, 90, 102).
RetNil == [kind |-> "nil", wraps |-> {}, attempts |-> 0]
RetNonRetryable(e) == [kind |-> "nonRetryable", wraps |-> {e}, attempts |-> 0]
RetCanceled == [kind |-> "canceled", wraps |-> {CtxCanceled}, attempts |-> 0]
RetMaxRetries(cfg, e) ==
    [kind |-> "maxRetries", wraps |-> {ErrMaxRetriesExceeded, e},
     attempts |-> cfg.MaxRetries + 1]
RetNone == [kind |-> "none", wraps |-> {}, attempts |-> 0]

\* retry.go:75: the error of this attempt ends the loop as non-retryable.
\* (faulty variant: the predicate is never consulted)
IsNonRetryableIgnoresPredicate(cfg, e) == FALSE
IsNonRetryable(cfg, e) ==
    cfg.RetryableErrors # PredNil /\ ~PredAccepts(cfg.RetryableErrors, e)

\* retry.go:80: no sleep after the last attempt.
\* (faulty variants: the sleep is not skipped; the loop gives up one attempt early)
IsLastAttemptNever(cfg, a) == FALSE
IsLastAttemptOneEarly(cfg, a) == a >= cfg.MaxRetries - 1
IsLastAttempt(cfg, a) == a = cfg.MaxRetries

\* retry.go:72: lastErr after a failed attempt.
RecordLastErr(old, e) == e

\* retry.go:62-63: the call starts.
RetryStart ==
    /\ rpc = "idle"
    /\ rpc' = "loop"
    /\ attempt' = 0
    /\ backoff' = rcfg.InitialBackoff
    /\ lastErr' = NoErr
    /\ UNCHANGED <<rcfg, sleepDuration, rHist, rSleeps, rResult, timerFired, woken, ctxDone,
                   cbVars, recVars, dlqVars>>

\* retry.go:68-85: what the loop does with the result o of the operation.
AfterAttempt(o) ==
    /\ rHist' = Append(rHist, o)
    /\ IF o = OpOK
       THEN /\ rpc' = "done"
            /\ rResult' = RetNil
            /\ UNCHANGED <<lastErr, sleepDuration>>
       ELSE /\ lastErr' = RecordLastErr(lastErr, o)
            /\ IF IsNonRetryable(rcfg, o)
               THEN /\ rpc' = "done"
                    /\ rResult' = RetNonRetryable(o)
                    /\ UNCHANGED sleepDuration
               ELSE IF IsLastAttempt(rcfg, attempt)
               THEN /\ rpc' = "done"
                    /\ rResult' = RetMaxRetries(rcfg, lastErr')
                    /\ UNCHANGED sleepDuration
               ELSE /\ rpc' = "sleep"
                    /\ \E n \in JitterDraws :
                         sleepDuration' =
                             calculateBackoffWithJitter(backoff, rcfg.MaxBackoff, n)
                    /\ UNCHANGED rResult
    /\ timerFired' = FALSE
    /\ woken' = "poll"
    /\ UNCHANGED <<rcfg, attempt, backoff, rSleeps, ctxDone>>

\* retry.go:65 and 102: the loop condition fails; the call returns.
LoopExhausted ==
    /\ rpc' = "done"
    /\ rResult' = RetMaxRetries(rcfg, lastErr)
    /\ timerFired' = FALSE
    /\ woken' = "poll"
    /\ UNCHANGED <<rcfg, attempt, backoff, rSleeps, ctxDone, rHist, lastErr, sleepDuration>>

\* retry.go:65-85: one iteration of the loop up to the select.
RetryAttempt ==
    /\ rpc = "loop"
    /\ IF attempt > rcfg.MaxRetries
       THEN LoopExhausted
       ELSE \E o \in OpOutcomes : AfterAttempt(o)
    /\ UNCHANGED <<cbVars, recVars, dlqVars>>

\* What the operation wrapped by the breaker returns: nil, an error IsRetryableError
\* accepts, one it rejects.
WrappedOutcomes == {OpOK, ErrTimeout, ErrUnauthorized}

\* RetryWithCircuitBreaker (retry.go:284-293): one iteration of the loop of
\* RetryOperation whose operation is cb.Execute(operation). Execute runs to its end
\* inside the iteration: a rejected call yields ErrCircuitOpen, an admitted one the
\* result of the wrapped operation.
RetryAttemptCB ==
    /\ rpc = "loop"
    /\ IF attempt > rcfg.MaxRetries
       THEN /\ LoopExhausted
            /\ UNCHANGED <<cb, opCalls, nExec, streak>>
       ELSE /\ nExec' = nExec + 1
            /\ IF Admits(cb, now)
               THEN \E r \in WrappedOutcomes :
                      /\ cb' = IF r = OpOK THEN OnSuccess(AfterSwitch(cb, now))
                                ELSE OnFailure(AfterSwitch(cb, now), now)
                      /\ opCalls' = opCalls + 1
                      /\ streak' = IF r = OpOK THEN 0 ELSE streak + 1
                      /\ AfterAttempt(r)
               ELSE /\ AfterAttempt(ErrCircuitOpen)
                    /\ UNCHANGED <<cb, opCalls, streak>>
    /\ UNCHANGED <<now, cpc, cret, probe, cload, recVars, dlqVars>>

\* A select blocked on ctx.Done() and the timer is woken by the case that becomes
\* ready first; a later event does not change the case it takes.
WakeOnCancelIgnored(w) == w
WakeOnCancel(w) == IF w = "parked" THEN "ctx" ELSE w
WakeOnTimer(w)  == IF w = "parked" THEN "timer" ELSE w

\* retry.go:87-93: the case the select takes. Evaluated with both cases ready it takes
\* either; blocked, it takes the case that woke it.
SelectTakesDone(w, canceled)  == (w = "poll" /\ canceled) \/ w = "ctx"
SelectTakesTimer(w, fired)    == (w = "poll" /\ fired) \/ w = "timer"

\* The timer of time.After(sleepDuration) fires.
TimerFire ==
    /\ rpc = "sleep"
    /\ ~timerFired
    /\ woken \in {"poll", "parked"}
    /\ timerFired' = TRUE
    /\ woken' = WakeOnTimer(woken)
    /\ UNCHANGED <<rcfg, rpc, attempt, backoff, sleepDuration, lastErr, rHist, rSleeps,
                   rResult, ctxDone, cbVars, recVars, dlqVars>>

\* The caller's context is canceled.
CtxCancel ==
    /\ ~ctxDone
    /\ rpc \in {"loop", "sleep"}
    /\ ctxDone' = TRUE
    /\ woken' = IF rpc = "sleep" THEN WakeOnCancel(woken) ELSE woken
    /\ UNCHANGED <<rcfg, rpc, attempt, backoff, sleepDuration, lastErr, rHist, rSleeps,
                   rResult, timerFired, cbVars, recVars, dlqVars>>

\* retry.go:87: the select finds no case ready and blocks.
RetrySelectPark ==
    /\ rpc = "sleep"
    /\ woken = "poll"
    /\ ~ctxDone
    /\ ~timerFired
    /\ woken' = "parked"
    /\ UNCHANGED <<rcfg, rpc, attempt, backoff, sleepDuration, lastErr, rHist, rSleeps,
                   rResult, timerFired, ctxDone, cbVars, recVars, dlqVars>>

\* retry.go:88-90: the select takes the ctx.Done() case.
RetrySelectDone ==
    /\ rpc = "sleep"
    /\ SelectTakesDone(woken, ctxDone)
    /\ rpc' = "done"
    /\ rResult' = RetCanceled
    /\ UNCHANGED <<rcfg, attempt, backoff, sleepDuration, lastErr, rHist, rSleeps,
                   timerFired, woken, ctxDone, cbVars, recVars, dlqVars>>

\* retry.go:91-99: the select takes the timer case; the backoff grows.
RetrySelectTimer ==
    /\ rpc = "sleep"
    /\ SelectTakesTimer(woken, timerFired)
    /\ rpc' = "loop"
    /\ rSleeps' = rSleeps + 1
    /\ attempt' = attempt + 1
    /\ backoff' \in NextBackoffs(backoff, rcfg)
    /\ UNCHANGED <<rcfg, sleepDuration, lastErr, rHist, rResult, timerFired, woken, ctxDone,
                   cbVars, recVars, dlqVars>>

\* RetryOperation has returned (retry.go:69, 76, 90, 102); its caller may call it
\* again. `backoff` is a local variable of the call that ended: the value kept here
\* is what a call that wrongly reused it would find.
RetryReturn ==
    /\ rpc = "done"
    /\ rpc' = "idle"
    /\ rHist' = <<>>
    /\ rSleeps' = 0
    /\ UNCHANGED <<rcfg, attempt, backoff, sleepDuration, lastErr, rResult, timerFired,
                   woken, ctxDone, cbVars, recVars, dlqVars>>

(***************************************************************************)
(*                         RECONCILIATION ENGINE                           *)
(***************************************************************************)

\* Bounds of the reconcile model.
MaxMinNodes    == 2     \* spec.minNodes is drawn from 0..MaxMinNodes
MaxTargetNodes == 3     \* spec.targetNodes is drawn from 0..MaxTargetNodes
MaxPending     == 2     \* pending pods seen by a pass: 0..MaxPending
MaxInitServers == 3     \* servers the provider holds at the start: 0..MaxInitServers
MaxPasses      == 2     \* passes in one behaviour

\* Status.Phase values written by the controller ("" is the phase of a new object).
PhaseNone            == ""
PhaseReady           == "Ready"
PhaseError           == "Error"
PhaseScaleUpFailed   == "ScaleUpFailed"
PhaseScaleDownFailed == "ScaleDownFailed"

\* hetzner.Server.Status as countReadyNodes reads it.
ServerStatuses == {"running", "initializing"}

\* The NodePool specs a behaviour may start with. maxNodes below minNodes is included
\* (nothing in the controller rejects it).
MaxNodesChoices  == {1, 2, 5}
ThresholdChoices == {1, 2}
PoolSpecs ==
    [minNodes : 0..MaxMinNodes, maxNodes : MaxNodesChoices, targetNodes : 0..MaxTargetNodes,
     autoScalingEnabled : BOOLEAN, scaleUpThreshold : ThresholdChoices]

\* The errors a pass returns, by the call that failed.
ErrNone         == "nil"
ErrGet          == "get failed"
ErrUpdate       == "update failed"
ErrList         == "list servers failed"
ErrCreate       == "create server failed"
ErrDelete       == "delete server failed"
ErrStatusUpdate == "status update failed"

\* ctrl.Result{} and ctrl.Result{RequeueAfter: reconcileInterval}, with the error.
Return(e, requeue) == [err |-> e, requeueAfter |-> requeue]

NoCalls == [list |-> 0, create |-> 0, delete |-> 0]

\* The provider call of the pass that returned an error.
FaultNone   == "none"
FaultList   == "ListServers"
FaultCreate == "CreateServer"
FaultDelete == "DeleteServer"
NoPods  == [listed |-> FALSE, failed |-> FALSE, pending |-> 0]

\* The condition a pass appended to Status.Conditions (updateStatus), if any.
NoCond == [reason |-> "", message |-> ""]

EmptyStatus ==
    [phase |-> PhaseNone, currentNodes |-> 0, readyNodes |-> 0, nodes |-> <<>>]

\* drainNode (nodepool_controller.go:500-530) returns nil (the node is cordoned and
\* its pods evicted, or there is no such node) or the error of one of its calls.
DrainOK      == "drained"
DrainFailed  == "drain failed"
DrainOutcomes == {DrainOK, DrainFailed}

\* The calls deleteServer makes, in the order of lines 477, 483-489 and 492.
DeleteServerSteps == <<"drainNode", "deleteNode", "DeleteServer">>

NoDelete == [id |-> 0, steps |-> <<>>, drain |-> "", err |-> ErrNone]

\* countReadyNodes (nodepool_controller.go:580-588)
RECURSIVE countReadyNodes(_)
countReadyNodes(ss) ==
    IF ss = <<>> THEN 0
    ELSE (IF Head(ss).status = "running" THEN 1 ELSE 0) + countReadyNodes(Tail(ss))

\* getServerNames (nodepool_controller.go:630-636); a server is named by its ID here.
getServerNames(ss) == [i \in 1..Len(ss) |-> ss[i].id]

\* calculateDesiredNodes (nodepool_controller.go:188-218); p is the pods listing.
\* (faulty variant: one node is added per pending pod)
calculateDesiredNodesByPending(sp, currentNodes, p) ==
    IF p.failed THEN currentNodes
    ELSE IF p.pending >= sp.scaleUpThreshold THEN currentNodes + p.pending
    ELSE IF currentNodes > sp.minNodes /\ p.pending = 0 THEN currentNodes - 1
    ELSE currentNodes
calculateDesiredNodes(sp, currentNodes, p) ==
    IF p.failed THEN currentNodes
    ELSE IF p.pending >= sp.scaleUpThreshold THEN currentNodes + 1
    ELSE IF currentNodes > sp.minNodes /\ p.pending = 0 THEN currentNodes - 1
    ELSE currentNodes

\* Reconcile lines 114-122: desiredNodes before the constraints.
\* (faulty variant: autoscaling takes priority over targetNodes)
DesiredBeforeClampAutoFirst(sp, currentNodes, p) ==
    IF sp.autoScalingEnabled THEN calculateDesiredNodes(sp, currentNodes, p)
    ELSE IF sp.targetNodes > 0 THEN sp.targetNodes
    ELSE sp.minNodes
DesiredBeforeClamp(sp, currentNodes, p) ==
    IF sp.targetNodes > 0 THEN sp.targetNodes
    ELSE IF sp.autoScalingEnabled THEN calculateDesiredNodes(sp, currentNodes, p)
    ELSE sp.minNodes

\* Reconcile lines 124-130: enforce min/max constraints.
\* (faulty variant: the minNodes constraint is left out)
EnforceMaxOnly(sp, d) ==
    IF d > sp.maxNodes THEN sp.maxNodes ELSE d
\* (faulty variant: the maxNodes constraint is left out)
EnforceMinOnly(sp, d) ==
    IF d < sp.minNodes THEN sp.minNodes ELSE d
EnforceMinMax(sp, d) ==
    LET d1 == IF d < sp.minNodes THEN sp.minNodes ELSE d
    IN  IF d1 > sp.maxNodes THEN sp.maxNodes ELSE d1

\* The provider after a successful DeleteServer(id).
CloudWithout(c, id) == SelectSeq(c, LAMBDA s : s.id # id)

\* client.Update / Status().Update of np can succeed only on the object np was read
\* from: it still exists and nobody changed it (same resourceVersion) meanwhile.
StoreAccepts == obj.exists /\ obj.deleting = np.deleting

\* updateStatus (nodepool_controller.go:563-578): the phase is set on np, a condition
\* with the phase as reason and the error text as message is appended, and the status
\* is written best-effort (the error of Status().Update is dropped).
\* (faulty variant: updateStatus does nothing)
UpdateStatusDropped(phase, message, persisted) == UNCHANGED <<np, stStatus>>
UpdateStatus(phase, message, persisted) ==
    /\ np' = [np EXCEPT !.phase = phase, !.cond = [reason |-> phase, message |-> message]]
    /\ stStatus' = IF persisted /\ StoreAccepts
                   THEN [phase |-> phase, currentNodes |-> np.currentNodes,
                         readyNodes |-> np.readyNodes, nodes |-> np.nodes]
                   ELSE stStatus

\* Reconcile lines 78-85: r.Get finds the NodePool, answers NotFound, or fails.
GetNone     == ""
GetFound    == "found"
GetNotFound == "not found"
GetFailed   == "failed"
GetAnswers(o) == IF o.exists THEN {GetFound, GetFailed} ELSE {GetNotFound, GetFailed}

\* Reconcile lines 78-84: NotFound is ignored, any other error of r.Get is returned.
\* (faulty variant: NotFound is returned as an error too)
GetErrorStrict(g) == IF g = GetFound THEN ErrNone ELSE ErrGet
GetError(g) == IF g = GetFailed THEN ErrGet ELSE ErrNone

\* Reconcile line 88: !nodePool.DeletionTimestamp.IsZero()
\* (faulty variant: the deletion timestamp is not looked at)
DeletionRequestedNever(n) == FALSE
DeletionRequested(n) == n.deleting

\* Reconcile lines 76-90: fetch the NodePool, branch on the deletion timestamp.
Fetch ==
    /\ pc \in {"idle", "done"}
    /\ passes' = Min(passes + 1, MaxPasses)
    /\ servers' = <<>>
    /\ pods' = NoPods
    /\ preClamp' = 0
    /\ desiredNodes' = 0
    /\ idx' = 0
    /\ calls' = NoCalls
    /\ fault' = FaultNone
    /\ deleted' = <<>>
    /\ lastDel' = NoDelete
    /\ \E g \in GetAnswers(obj) :
         /\ got' = g
         /\ IF g # GetFound
            THEN /\ ret' = Return(GetError(g), FALSE)
                 /\ pc' = "done"
                 /\ UNCHANGED np
            ELSE /\ np' = [deleting |-> obj.deleting, finalizer |-> obj.finalizer,
                           phase |-> stStatus.phase, cond |-> NoCond,
                           currentNodes |-> stStatus.currentNodes,
                           readyNodes |-> stStatus.readyNodes, nodes |-> stStatus.nodes]
                 /\ ret' = Return(ErrNone, FALSE)
                 /\ pc' = IF DeletionRequested(np') THEN "handleDeletion" ELSE "finalizer"
    /\ UNCHANGED <<pspec, obj, stStatus, cloud, nextID, cbVars, retryVars, dlqVars>>

\* Reconcile lines 95-97: an error of r.Update ends the pass.
\* (faulty variant: the pass goes on after a failed Update)
UpdateFailureIgnored(err) == FALSE
UpdateFailureAborts(err) == err # ErrNone

\* Reconcile lines 92-98: add the finalizer if not present, and persist.
EnsureFinalizer ==
    /\ pc = "finalizer"
    /\ IF np.finalizer
       THEN /\ pc' = "observe"
            /\ UNCHANGED <<np, obj, ret>>
       ELSE /\ np' = [np EXCEPT !.finalizer = TRUE]
            /\ \E err \in {ErrNone, ErrUpdate} :
                 /\ err = ErrNone => StoreAccepts
                 /\ obj' = IF err = ErrNone THEN [obj EXCEPT !.finalizer = TRUE] ELSE obj
                 /\ IF UpdateFailureAborts(err)
                    THEN /\ ret' = Return(err, FALSE)
                         /\ pc' = "done"
                    ELSE /\ pc' = "observe"
                         /\ UNCHANGED ret
    /\ UNCHANGED <<pspec, stStatus, cloud, nextID, servers, pods, preClamp, desiredNodes,
                   idx, calls, fault, passes, cbVars, retryVars, deleted, lastDel,
                   got, dlqVars>>

\* Reconcile lines 100-111: list the servers; on failure publish phase "Error".
Observe ==
    /\ pc = "observe"
    /\ calls' = [calls EXCEPT !.list = calls.list + 1]
    /\ \/ /\ servers' = cloud
          /\ np' = [np EXCEPT !.currentNodes = Len(cloud),
                              !.readyNodes = countReadyNodes(cloud),
                              !.nodes = getServerNames(cloud)]
          /\ pc' = "decide"
          /\ UNCHANGED <<stStatus, ret, fault>>
       \/ /\ fault' = FaultList
          /\ \E persisted \in BOOLEAN : UpdateStatus(PhaseError, ErrList, persisted)
          /\ ret' = Return(ErrList, TRUE)
          /\ pc' = "done"
          /\ UNCHANGED servers
    /\ UNCHANGED <<pspec, obj, cloud, nextID, pods, preClamp, desiredNodes, idx, passes,
                   cbVars, retryVars, deleted, lastDel,
                   got, dlqVars>>

\* Reconcile lines 113-130: determine the desired number of nodes.
Decide ==
    /\ pc = "decide"
    /\ \E p \in [listed : {TRUE}, failed : BOOLEAN, pending : 0..MaxPending] \cup {NoPods} :
         /\ p.listed = (pspec.targetNodes <= 0 /\ pspec.autoScalingEnabled)
         /\ p.failed => p.pending = 0
         /\ pods' = p
         /\ preClamp' = DesiredBeforeClamp(pspec, np.currentNodes, p)
         /\ desiredNodes' = EnforceMinMax(pspec, DesiredBeforeClamp(pspec, np.currentNodes, p))
    /\ pc' = "scaleUp"
    /\ idx' = 0
    /\ UNCHANGED <<pspec, obj, stStatus, cloud, nextID, np, servers, calls, fault, ret,
                   passes, cbVars, retryVars, deleted, lastDel,
                   got, dlqVars>>

\* Reconcile lines 133-137 and 151-155: how many times each loop body runs.
\* (faulty variant of the scale-up count: one iteration too many)
ScaleUpIterationsOffByOne(n, d) == IF n <= d THEN d - n + 1 ELSE 0
ScaleUpIterations(n, d)   == IF n < d THEN d - n ELSE 0
\* (faulty variant of the scale-down count: nothing is ever removed)
ScaleDownIterationsNone(n, d) == 0
ScaleDownIterations(n, d) == IF n > d THEN n - d ELSE 0

\* Reconcile lines 138-142: an error of createServer ends the pass.
\* (faulty variant: the loop goes on after a failed createServer)
ScaleUpNeverAborts(err) == FALSE
ScaleUpAborts(err) == err # ErrNone

\* Reconcile lines 137-143: one iteration of the scale-up loop, createServer
\* (lines 220-281). The workflow can fail before the provider is called (cloud-init,
\* firewall, missing hetznerConfig) or in the provider's CreateServer.
ScaleUpStep ==
    /\ pc = "scaleUp"
    /\ idx < ScaleUpIterations(Len(servers), desiredNodes)
    /\ \E err \in {ErrNone, ErrCreate}, called \in BOOLEAN :
         /\ err = ErrNone => called
         /\ calls' = [calls EXCEPT !.create = calls.create + (IF called THEN 1 ELSE 0)]
         /\ IF err = ErrNone
            THEN /\ \E st \in ServerStatuses :
                      cloud' = Append(cloud, [id |-> nextID, status |-> st])
                 /\ nextID' = nextID + 1
                 /\ UNCHANGED fault
            ELSE /\ fault' = IF called THEN FaultCreate ELSE fault
                 /\ UNCHANGED <<cloud, nextID>>
         /\ IF ScaleUpAborts(err)
            THEN /\ \E persisted \in BOOLEAN : UpdateStatus(PhaseScaleUpFailed, err, persisted)
                 /\ ret' = Return(err, TRUE)
                 /\ pc' = "done"
                 /\ UNCHANGED idx
            ELSE /\ idx' = idx + 1
                 /\ UNCHANGED <<pc, np, stStatus, ret>>
    /\ UNCHANGED <<pspec, obj, servers, pods, preClamp, desiredNodes, passes, deleted,
                   lastDel, cbVars, retryVars, got, dlqVars>>

\* Reconcile lines 133-148: the scale-up block is over (or was not entered).
ScaleUpDone ==
    /\ pc = "scaleUp"
    /\ idx >= ScaleUpIterations(Len(servers), desiredNodes)
    /\ pc' = "scaleDown"
    /\ idx' = 0
    /\ UNCHANGED <<pspec, obj, stStatus, cloud, nextID, np, servers, pods, preClamp,
                   desiredNodes, calls, fault, ret, passes, cbVars, retryVars, deleted, lastDel,
                   got, dlqVars>>

\* deleteServer lines 477-497: what it returns, given the outcome of drainNode and
\* whether the provider's DeleteServer succeeded. The drain error is only logged.
\* (faulty variant: a failed drain is returned as the error of the workflow)
deleteServerErrDrainFatal(drain, ok) ==
    IF drain = DrainFailed \/ ~ok THEN ErrDelete ELSE ErrNone
deleteServerErr(drain, ok) == IF ok THEN ErrNone ELSE ErrDelete

\* deleteServer (nodepool_controller.go:469-498) on server s: best-effort drain and
\* node removal, then the provider's DeleteServer.
DeleteServerCall(s, drain, ok) ==
    /\ calls' = [calls EXCEPT !.delete = calls.delete + 1]
    /\ cloud' = IF ok THEN CloudWithout(cloud, s.id) ELSE cloud
    /\ fault' = IF ok THEN fault ELSE FaultDelete
    /\ deleted' = Append(deleted, s.id)
    /\ lastDel' = [id |-> s.id, steps |-> DeleteServerSteps, drain |-> drain,
                   err |-> deleteServerErr(drain, ok)]

\* Reconcile line 157: iteration i (from 1) of the scale-down loop takes servers[i-1].
\* (faulty variant: the servers are taken from the end of the listing)
ScaleDownTargetFromEnd(ss, i) == ss[Len(ss) + 1 - i]
ScaleDownTarget(ss, i) == ss[i]

\* Reconcile lines 155-163: one iteration of the scale-down loop.
ScaleDownStep ==
    /\ pc = "scaleDown"
    /\ idx < ScaleDownIterations(Len(servers), desiredNodes)
    /\ \E drain \in DrainOutcomes, ok \in BOOLEAN :
         /\ DeleteServerCall(ScaleDownTarget(servers, idx + 1), drain, ok)
         /\ IF deleteServerErr(drain, ok) # ErrNone
            THEN /\ \E persisted \in BOOLEAN : UpdateStatus(PhaseScaleDownFailed, deleteServerErr(drain, ok), persisted)
                 /\ ret' = Return(deleteServerErr(drain, ok), TRUE)
                 /\ pc' = "done"
                 /\ UNCHANGED idx
            ELSE /\ idx' = idx + 1
                 /\ UNCHANGED <<pc, np, stStatus, ret>>
    /\ UNCHANGED <<pspec, obj, nextID, servers, pods, preClamp, desiredNodes, passes,
                   cbVars, retryVars, got, dlqVars>>

\* Reconcile lines 151-168: the scale-down block is over (or was not entered).
ScaleDownDone ==
    /\ pc = "scaleDown"
    /\ idx >= ScaleDownIterations(Len(servers), desiredNodes)
    /\ pc' = "publish"
    /\ idx' = 0
    /\ UNCHANGED <<pspec, obj, stStatus, cloud, nextID, np, servers, pods, preClamp,
                   desiredNodes, calls, fault, ret, passes, cbVars, retryVars, deleted, lastDel,
                   got, dlqVars>>

\* Reconcile line 172: r.Status().Update writes the Status of the pass's copy n of
\* the NodePool, whose counts were set from the listing at lines 109-111; c is the
\* provider's servers at that moment.
\* (faulty variant: the counts are taken from the provider again before publishing)
PublishedStatusRelisted(n, c) ==
    [phase |-> n.phase, currentNodes |-> Len(c), readyNodes |-> countReadyNodes(c),
     nodes |-> getServerNames(c)]
PublishedStatus(n, c) ==
    [phase |-> n.phase, currentNodes |-> n.currentNodes,
     readyNodes |-> n.readyNodes, nodes |-> n.nodes]

\* Reconcile lines 170-185: set phase "Ready" and persist the status.
Publish ==
    /\ pc = "publish"
    /\ np' = [np EXCEPT !.phase = PhaseReady]
    /\ \/ /\ StoreAccepts
          /\ stStatus' = PublishedStatus(np', cloud)
          /\ ret' = Return(ErrNone, TRUE)
       \/ /\ ret' = Return(ErrStatusUpdate, FALSE)
          /\ UNCHANGED stStatus
    /\ pc' = "done"
    /\ UNCHANGED <<pspec, obj, cloud, nextID, servers, pods, preClamp, desiredNodes, idx,
                   calls, fault, passes, cbVars, retryVars, deleted, lastDel,
                   got, dlqVars>>

\* handleDeletion lines 538-544: without the finalizer nothing is done; with it the
\* servers are listed.
DeletionList ==
    /\ pc = "handleDeletion"
    /\ IF ~np.finalizer
       THEN /\ ret' = Return(ErrNone, FALSE)
            /\ pc' = "done"
            /\ UNCHANGED <<servers, calls, fault>>
       ELSE /\ calls' = [calls EXCEPT !.list = calls.list + 1]
            /\ \/ /\ servers' = cloud
                  /\ pc' = "cleanup"
                  /\ UNCHANGED <<ret, fault>>
               \/ /\ fault' = FaultList
                  /\ ret' = Return(ErrList, FALSE)
                  /\ pc' = "done"
                  /\ UNCHANGED servers
    /\ idx' = 0
    /\ UNCHANGED <<pspec, obj, stStatus, cloud, nextID, np, pods, preClamp, desiredNodes,
                   passes, cbVars, retryVars, deleted, lastDel,
                   got, dlqVars>>

\* handleDeletion lines 547-550: a failed deleteServer ends the workflow.
\* (faulty variant: the loop goes on after a failed delete)
CleanupNeverAborts(ok) == FALSE
CleanupAborts(ok) == ~ok

\* handleDeletion lines 546-551: delete the next listed server.
DeletionStep ==
    /\ pc = "cleanup"
    /\ idx < Len(servers)
    /\ \E drain \in DrainOutcomes, ok \in BOOLEAN :
         /\ DeleteServerCall(servers[idx + 1], drain, ok)
         /\ IF CleanupAborts(deleteServerErr(drain, ok) = ErrNone)
            THEN /\ ret' = Return(deleteServerErr(drain, ok), FALSE)
                 /\ pc' = "done"
                 /\ UNCHANGED idx
            ELSE /\ idx' = idx + 1
                 /\ UNCHANGED <<pc, ret>>
    /\ UNCHANGED <<pspec, obj, stStatus, nextID, np, servers, pods, preClamp, desiredNodes,
                   passes, cbVars, retryVars, got, dlqVars>>

\* handleDeletion lines 553-560: every listed server is deleted; remove the finalizer
\* and persist. The platform then removes the tombstoned object.
RemoveFinalizer ==
    /\ pc = "cleanup"
    /\ idx = Len(servers)
    /\ np' = [np EXCEPT !.finalizer = FALSE]
    /\ \/ /\ StoreAccepts
          /\ obj' = [obj EXCEPT !.finalizer = FALSE, !.exists = FALSE]
          /\ ret' = Return(ErrNone, FALSE)
       \/ /\ ret' = Return(ErrUpdate, FALSE)
          /\ UNCHANGED obj
    /\ pc' = "done"
    /\ UNCHANGED <<pspec, stStatus, cloud, nextID, servers, pods, preClamp, desiredNodes,
                   idx, calls, fault, passes, cbVars, retryVars, deleted, lastDel,
                   got, dlqVars>>

\* A user deletes the NodePool: the platform sets the deletion timestamp while a
\* finalizer is present, and removes the object otherwise.
UserDelete ==
    /\ obj.exists
    /\ ~obj.deleting
    /\ obj' = IF obj.finalizer THEN [obj EXCEPT !.deleting = TRUE]
              ELSE [obj EXCEPT !.exists = FALSE]
    /\ UNCHANGED <<pspec, stStatus, cloud, nextID, pc, np, servers, pods, preClamp,
                   desiredNodes, idx, calls, fault, ret, passes, cbVars, retryVars, deleted, lastDel,
                   got, dlqVars>>

RecQuiet ==
    /\ pspec = [minNodes |-> 0, maxNodes |-> 0, targetNodes |-> 0,
                autoScalingEnabled |-> FALSE, scaleUpThreshold |-> 1]
    /\ obj = [exists |-> FALSE, deleting |-> FALSE, finalizer |-> FALSE]
    /\ stStatus = EmptyStatus
    /\ cloud = <<>>
    /\ nextID = 1
    /\ pc = "idle"
    /\ np = [deleting |-> FALSE, finalizer |-> FALSE, phase |-> PhaseNone,
             cond |-> NoCond, currentNodes |-> 0, readyNodes |-> 0, nodes |-> <<>>]
    /\ servers = <<>>
    /\ pods = NoPods
    /\ preClamp = 0
    /\ desiredNodes = 0
    /\ idx = 0
    /\ calls = NoCalls
    /\ fault = FaultNone
    /\ ret = Return(ErrNone, FALSE)
    /\ passes = 0
    /\ got = GetNone
    /\ deleted = <<>>
    /\ lastDel = NoDelete

(***************************************************************************)
(*        DeadLetterQueue (dead_letter_queue.go, part_000:1389-1567)       *)
(***************************************************************************)

MaxDlqCalls == 3       \* calls started in one behaviour

Goroutines  == {1, 2}
Capacities  == {0, 1, 2}
OpIDs       == {"op-1", "op-2", "op-3"}
OpTypes     == {"create"}
ListenerIDs == {"L1"}

\* ErrQueueFull (part_000:1415)
ErrQueueFull == "ErrQueueFull"

\* FailedOperation (part_000:1419-1434): ID, OperationType, Timestamp.
Entry(id, type, t) == [ID |-> id, OperationType |-> type, Timestamp |-> t]
NoEntry == [ID |-> "", OperationType |-> "", Timestamp |-> 0]

\* NewDeadLetterQueue (part_000:1445-1451)
NewDeadLetterQueue(maxSize) ==
    [operations |-> [i \in OpIDs |-> NoEntry], maxSize |-> maxSize, listeners |-> <<>>]

\* len(dlq.operations)
Keys(q) == {i \in OpIDs : q.operations[i] # NoEntry}
QueueSize(q) == Cardinality(Keys(q))

\* Add, line 1458: len(dlq.operations) >= dlq.maxSize
\* (faulty variant: the test written >)
IsFullOffByOne(q) == QueueSize(q) > q.maxSize
IsFull(q) == QueueSize(q) >= q.maxSize

\* sync.RWMutex: Lock needs no holder at all, RLock no writer. A goroutine that
\* cannot take the lock waits. Add is followed statement by statement; every other
\* method is one step that starts when its lock can be taken and holds it throughout,
\* so the set of readers is empty between steps.
\* (faulty variant: Lock does not wait)
CanLockAlways(mu) == TRUE
CanLock(mu)  == mu.writer = 0 /\ mu.readers = {}
CanRLock(mu) == mu.writer = 0
Unlocked(mu, g) ==
    [writer |-> IF mu.writer = g THEN 0 ELSE mu.writer, readers |-> mu.readers \ {g}]

\* A call: the method, its arguments, and its number n in the order of the calls.
Call(m, id, arg, n) == [m |-> m, id |-> id, arg |-> arg, n |-> n]
NoCall == Call("", "", "", 0)

\* What call c returns: error, entry and found (Get), count (Size),
\* IDs (List).
DlqRet(c, e, entry, n, ids) ==
    [call |-> c, err |-> e, entry |-> entry, size |-> n, ids |-> ids]
NoRet == DlqRet(NoCall, "none", NoEntry, 0, {})

\* Add, lines 1465-1467: one goroutine per registered listener, started with the
\* entry; c is the number of the call.
\* (faulty variant: no listener is started)
NotificationsNone(q, e, c) == {}
Notifications(q, e, c) ==
    {[pos |-> i, listener |-> q.listeners[i], entry |-> e, call |-> c, ran |-> FALSE] :
        i \in 1..Len(q.listeners)}

\* Add is called (line 1454): the goroutine arrives at q.mu.Lock().
AddCall(g) ==
    /\ dpc[g] = "idle"
    /\ dCalls < MaxDlqCalls
    /\ dCalls' = dCalls + 1
    /\ \E id \in OpIDs, type \in OpTypes :
         dcall' = [dcall EXCEPT ![g] = Call("Add", id, type, dCalls + 1)]
    /\ dpc' = [dpc EXCEPT ![g] = "lock"]
    /\ UNCHANGED <<dlq, dmu, dret, notif, cbVars, retryVars, recVars>>

\* Add, lines 1455-1456: q.mu.Lock() returns once no other goroutine holds the lock.
AddLock(g) ==
    /\ dpc[g] = "lock"
    /\ CanLock(dmu)
    /\ dmu' = [dmu EXCEPT !.writer = g]
    /\ dpc' = [dpc EXCEPT ![g] = "check"]
    /\ UNCHANGED <<dlq, dcall, dret, notif, dCalls, cbVars, retryVars, recVars>>

\* Add, lines 1458-1460: the capacity test; a full queue returns ErrQueueFull and the
\* deferred Unlock runs.
AddCheck(g) ==
    /\ dpc[g] = "check"
    /\ IF IsFull(dlq)
       THEN /\ dret' = DlqRet(dcall[g], ErrQueueFull, NoEntry, 0, {})
            /\ dmu' = Unlocked(dmu, g)
            /\ dpc' = [dpc EXCEPT ![g] = "idle"]
            /\ dcall' = [dcall EXCEPT ![g] = NoCall]
       ELSE /\ dpc' = [dpc EXCEPT ![g] = "store"]
            /\ UNCHANGED <<dret, dmu, dcall>>
    /\ UNCHANGED <<dlq, notif, dCalls, cbVars, retryVars, recVars>>

\* Add, lines 1462-1470: stamp the time, store under op.ID, start the listeners,
\* return nil; the deferred Unlock runs.
AddStore(g) ==
    /\ dpc[g] = "store"
    /\ LET e == Entry(dcall[g].id, dcall[g].arg, now)
       IN  /\ dlq' = [dlq EXCEPT !.operations[dcall[g].id] = e]
           /\ notif' = notif \cup Notifications(dlq, e, dcall[g].n)
    /\ dret' = DlqRet(dcall[g], "nil", NoEntry, 0, {})
    /\ dmu' = Unlocked(dmu, g)
    /\ dpc' = [dpc EXCEPT ![g] = "idle"]
    /\ dcall' = [dcall EXCEPT ![g] = NoCall]
    /\ UNCHANGED <<dCalls, cbVars, retryVars, recVars>>

\* A call that holds the lock from its first statement to its return: q is the queue
\* it leaves, r what it returns.
LockedCall(g, canLock, q, r) ==
    /\ dpc[g] = "idle"
    /\ dCalls < MaxDlqCalls
    /\ canLock
    /\ dCalls' = dCalls + 1
    /\ dlq' = q
    /\ dret' = r
    /\ UNCHANGED <<dmu, dpc, dcall, notif, cbVars, retryVars, recVars>>

\* Get (part_000:1474-1480)
Get(g) ==
    \E id \in OpIDs :
      LockedCall(g, CanRLock(dmu), dlq,
                 DlqRet(Call("Get", id, "", dCalls + 1), "nil",
                        dlq.operations[id], 0, {}))

\* Remove (part_000:1483-1488)
Remove(g) ==
    \E id \in OpIDs :
      LockedCall(g, CanLock(dmu), [dlq EXCEPT !.operations[id] = NoEntry],
                 DlqRet(Call("Remove", id, "", dCalls + 1), "nil", NoEntry, 0, {}))

\* List (part_000:1491-1501)
List(g) ==
    LockedCall(g, CanRLock(dmu), dlq,
               DlqRet(Call("List", "", "", dCalls + 1), "nil", NoEntry, 0,
                      Keys(dlq)))

\* Size (part_000:1504-1509)
Size(g) ==
    LockedCall(g, CanRLock(dmu), dlq,
               DlqRet(Call("Size", "", "", dCalls + 1), "nil", NoEntry,
                      QueueSize(dlq), {}))

\* Clear (part_000:1512-1517)
Clear(g) ==
    LockedCall(g, CanLock(dmu), [dlq EXCEPT !.operations = [i \in OpIDs |-> NoEntry]],
               DlqRet(Call("Clear", "", "", dCalls + 1), "nil", NoEntry, 0, {}))

\* AddListener (part_000:1520-1525)
AddListener(g) ==
    \E l \in ListenerIDs :
      LockedCall(g, CanLock(dmu), [dlq EXCEPT !.listeners = Append(dlq.listeners, l)],
                 DlqRet(Call("AddListener", "", l, dCalls + 1), "nil",
                        NoEntry, 0, {}))

\* A goroutine started by `go listener(op)` runs the listener.
ListenerRun ==
    /\ \E n \in notif :
         /\ ~n.ran
         /\ notif' = (notif \ {n}) \cup {[n EXCEPT !.ran = TRUE]}
    /\ UNCHANGED <<dlq, dmu, dpc, dcall, dret, dCalls, cbVars, retryVars, recVars>>

\* Add, lines 1462-1467, followed up to the last `go listener(op)`: the entry is
\* stored and the listeners are started; the goroutine still holds the lock.
AddSpawn(g) ==
    /\ dpc[g] = "store"
    /\ LET e == Entry(dcall[g].id, dcall[g].arg, now)
       IN  /\ dlq' = [dlq EXCEPT !.operations[dcall[g].id] = e]
           /\ notif' = notif \cup Notifications(dlq, e, dcall[g].n)
    /\ dpc' = [dpc EXCEPT ![g] = "return"]
    /\ UNCHANGED <<dmu, dcall, dret, dCalls, cbVars, retryVars, recVars>>

\* Add, lines 1466 and 1470: the `go` statement does not wait for the goroutine it
\* starts, so `return nil` is reached whatever the listeners of call c do.
\* (faulty variant: the listeners are called in place, `listener(op)`, and Add goes
\* on when they have returned)
AddReturnAfterListeners(ns, c) == \A n \in ns : n.call = c => n.ran
AddReturnReady(ns, c) == TRUE

\* Add, line 1470 and the deferred Unlock of line 1456.
AddReturn(g) ==
    /\ dpc[g] = "return"
    /\ AddReturnReady(notif, dcall[g].n)
    /\ dret' = DlqRet(dcall[g], "nil", NoEntry, 0, {})
    /\ dmu' = Unlocked(dmu, g)
    /\ dpc' = [dpc EXCEPT ![g] = "idle"]
    /\ dcall' = [dcall EXCEPT ![g] = NoCall]
    /\ UNCHANGED <<dlq, notif, dCalls, cbVars, retryVars, recVars>>

\* The methods a listener may call on the queue it was registered with.
ListenerMethods == {"Get", "Remove", "List", "Add"}

\* A goroutine started by `go listener(op)` runs a listener that calls method m of
\* the same queue with identifier id, and returns. The call takes the lock as the
\* method does (RLock in Get and List, Lock in Remove and Add) and so waits while
\* the lock is held; Add (lines 1454-1471) tests the capacity, stores, and starts the
\* listeners again. The value the method returns goes to the listener.
ListenerCallback(n, m, id) ==
    /\ n \in notif
    /\ ~n.ran
    /\ IF m \in {"Get", "List"} THEN CanRLock(dmu) ELSE CanLock(dmu)
    /\ m = "Add" => dCalls < MaxDlqCalls
    /\ dCalls' = IF m = "Add" THEN dCalls + 1 ELSE dCalls
    /\ LET e == Entry(id, CHOOSE type \in OpTypes : TRUE, now)
           stored == m = "Add" /\ ~IsFull(dlq)
       IN  /\ dlq' = IF stored THEN [dlq EXCEPT !.operations[id] = e]
                     ELSE IF m = "Remove" THEN [dlq EXCEPT !.operations[id] = NoEntry]
                     ELSE dlq
           /\ notif' = ((notif \ {n}) \cup {[n EXCEPT !.ran = TRUE]})
                           \cup (IF stored THEN Notifications(dlq, e, dCalls + 1) ELSE {})
    /\ UNCHANGED <<dmu, dpc, dcall, dret, cbVars, retryVars, recVars>>

\* main.go:198-206: the queue the reconciler is built with, one listener registered.
MainDlqCapacity == 1000
ReconcilerDLQ ==
    /\ dlq = [NewDeadLetterQueue(MainDlqCapacity) EXCEPT !.listeners = <<"L1">>]
    /\ dmu = [writer |-> 0, readers |-> {}]
    /\ dpc = [g \in Goroutines |-> "idle"]
    /\ dcall = [g \in Goroutines |-> NoCall]
    /\ dret = NoRet
    /\ notif = {}
    /\ dCalls = 0

DLQQuiet ==
    /\ dlq = NewDeadLetterQueue(0)
    /\ dmu = [writer |-> 0, readers |-> {}]
    /\ dpc = [g \in Goroutines |-> "idle"]
    /\ dcall = [g \in Goroutines |-> NoCall]
    /\ dret = NoRet
    /\ notif = {}
    /\ dCalls = 0

(***************************************************************************)
(*                            SPECIFICATIONS                               *)
(***************************************************************************)

\* The breaker machine at rest, for the specifications of the other machines.
CBQuiet ==
    /\ cb = NewCircuitBreaker(1, 0)
    /\ now = 0
    /\ cpc = [c \in Callers |-> "idle"]
    /\ cret = [c \in Callers |-> "none"]
    /\ opCalls = 0
    /\ nExec = 0
    /\ probe = [c \in Callers |-> FALSE]
    /\ streak = 0
    /\ cload = [c \in Callers |-> 0]

\* The retry machine at rest, for the specifications of the other machines.
RetryQuiet ==
    /\ rcfg = [MaxRetries |-> 0, InitialBackoff |-> 1, MaxBackoff |-> 6,
               BackoffMultiplier |-> 10, RetryableErrors |-> PredNil]
    /\ rpc = "idle"
    /\ attempt = 0
    /\ backoff = 0
    /\ sleepDuration = 0
    /\ lastErr = NoErr
    /\ rHist = <<>>
    /\ rSleeps = 0
    /\ rResult = RetNone
    /\ timerFired = FALSE
    /\ woken = "poll"
    /\ ctxDone = FALSE

\* ---- the breaker used by one caller at a time
InitCB ==
    /\ \E mf \in 1..MaxMaxFailures, rt \in 0..MaxResetTimeout :
         cb = NewCircuitBreaker(mf, rt)
    /\ now = 0
    /\ cpc = [c \in Callers |-> "idle"]
    /\ cret = [c \in Callers |-> "none"]
    /\ opCalls = 0
    /\ nExec = 0
    /\ probe = [c \in Callers |-> FALSE]
    /\ streak = 0
    /\ cload = [c \in Callers |-> 0]
    /\ RetryQuiet
    /\ RecQuiet
    /\ DLQQuiet

NextCB ==
    \/ ExecuteSwitch(1)
    \/ ExecuteInvoke(1)
    \/ ExecuteReturn(1)
    \/ (cpc[1] = "idle" /\ Reset)
    \/ Tick

SpecCB == InitCB /\ [][NextCB]_vars

\* ---- the breaker shared by concurrent callers
NextCBConc ==
    \/ \E c \in Callers : ExecuteSwitch(c)
    \/ \E c \in Callers : ExecuteInvoke(c)
    \/ \E c \in Callers : ExecuteReturn(c)
    \/ Reset
    \/ Tick

SpecCBConc == InitCB /\ [][NextCBConc]_vars

\* ---- the breaker shared by concurrent callers, with the steps of the unguarded
\* counter increment of onFailure interleaved
NextCBRace ==
    \/ \E c \in Callers : ExecuteSwitch(c)
    \/ \E c \in Callers : ExecuteInvoke(c)
    \/ \E c \in Callers : (ExecuteReturn(c) /\ cret'[c] = OpOK)
    \/ \E c \in Callers : OnFailureLoad(c)
    \/ \E c \in Callers : OnFailureStore(c)
    \/ Tick

SpecCBRace == InitCB /\ [][NextCBRace]_vars

\* ---- one RetryOperation call
InitRetry ==
    /\ rcfg \in RetryConfigs
    /\ rpc = "idle"
    /\ attempt = 0
    /\ backoff = 0
    /\ sleepDuration = 0
    /\ lastErr = NoErr
    /\ rHist = <<>>
    /\ rSleeps = 0
    /\ rResult = RetNone
    /\ timerFired = FALSE
    /\ woken = "poll"
    /\ ctxDone = FALSE
    /\ CBQuiet
    /\ RecQuiet
    /\ DLQQuiet

NextRetry ==
    \/ RetryStart
    \/ RetryAttempt
    \/ TimerFire
    \/ CtxCancel
    \/ RetrySelectPark
    \/ RetrySelectDone
    \/ RetrySelectTimer

SpecRetry == InitRetry /\ [][NextRetry]_vars

\* The Go runtime schedules the goroutine and fires the timer: every step of the
\* call that is enabled is eventually taken. Cancellation is the caller's choice.
FairSpecRetry ==
    /\ SpecRetry
    /\ WF_vars(RetryStart)
    /\ WF_vars(RetryAttempt)
    /\ WF_vars(TimerFire)
    /\ WF_vars(RetrySelectPark)
    /\ WF_vars(RetrySelectDone \/ RetrySelectTimer)

\* ---- one RetryWithCircuitBreaker call on a new breaker; the clock advances while
\* the call sleeps
InitRetryCB ==
    /\ rcfg \in {c \in RetryConfigs : c.InitialBackoff = 1 /\ c.BackoffMultiplier = 20}
    /\ rpc = "idle"
    /\ attempt = 0
    /\ backoff = 0
    /\ sleepDuration = 0
    /\ lastErr = NoErr
    /\ rHist = <<>>
    /\ rSleeps = 0
    /\ rResult = RetNone
    /\ timerFired = FALSE
    /\ woken = "poll"
    /\ ctxDone = FALSE
    /\ \E mf \in 1..MaxMaxFailures, rt \in 0..MaxResetTimeout :
         cb = NewCircuitBreaker(mf, rt)
    /\ now = 0
    /\ cpc = [c \in Callers |-> "idle"]
    /\ cret = [c \in Callers |-> "none"]
    /\ opCalls = 0
    /\ nExec = 0
    /\ probe = [c \in Callers |-> FALSE]
    /\ streak = 0
    /\ cload = [c \in Callers |-> 0]
    /\ RecQuiet
    /\ DLQQuiet

NextRetryCB ==
    \/ RetryStart
    \/ RetryAttemptCB
    \/ TimerFire
    \/ CtxCancel
    \/ RetrySelectPark
    \/ RetrySelectDone
    \/ RetrySelectTimer
    \/ (rpc = "sleep" /\ Tick)

SpecRetryCB == InitRetryCB /\ [][NextRetryCB]_vars

\* ---- hetzner.Client.executeWithRetry (part_000:1380-1387) with a breaker set:
\* c.circuitBreaker.Execute(func() error { return RetryOperation(ctx, c.retryConfig,
\* operation) }), called again and again by one caller. The client's configuration
\* retries what IsRetryableError accepts (part_000:1090, retry.go:55); the operation
\* returns nil, an error that predicate accepts, or one it rejects. The clock
\* advances while the call sleeps and between calls, as long as the time since the
\* last failure has not exceeded resetTimeout (after that the breaker's answer to a
\* call no longer depends on the clock).

\* What Execute sees of the function it wraps: the error RetryOperation returned.
\* (faulty variant: the function reports an error whatever RetryOperation returned)
ClosureResultAlwaysError(res) == OpFail
ClosureResult(res) == IF res = RetNil THEN OpOK ELSE OpFail

InitExecRetry ==
    /\ InitRetryCB
    /\ rcfg.RetryableErrors = PredDefault
    /\ rcfg.MaxRetries \in {0, 2}
    /\ cb.maxFailures \in {1, 2}
    /\ cb.resetTimeout \in {0, 1}

NextExecRetry ==
    \/ (rpc = "idle" /\ ExecuteSwitch(1))
    \/ ExecuteInvoke(1)
    \/ (cpc[1] = "running" /\ RetryStart)
    \/ (RetryAttempt /\ lastErr' \in {NoErr} \cup WrappedOutcomes)
    \/ TimerFire
    \/ RetrySelectPark
    \/ RetrySelectTimer
    \/ (rpc = "done" /\ ExecuteReturn(1) /\ cret'[1] = ClosureResult(rResult))
    \/ (cpc[1] = "idle" /\ RetryReturn)
    \/ ((rpc = "sleep" \/ cpc[1] = "idle")
          /\ now - cb.lastFailureTime <= cb.resetTimeout /\ Tick)

SpecExecRetry == InitExecRetry /\ [][NextExecRetry]_vars

\* ---- RetryOperation up to its first sleep, for every backoff the configuration
\* can hold
InitJitter ==
    /\ rcfg \in [MaxRetries : {1}, InitialBackoff : 0..MaxDuration,
                 MaxBackoff : 0..MaxDuration, BackoffMultiplier : {20},
                 RetryableErrors : {PredNil}]
    /\ rpc = "idle"
    /\ attempt = 0
    /\ backoff = 0
    /\ sleepDuration = 0
    /\ lastErr = NoErr
    /\ rHist = <<>>
    /\ rSleeps = 0
    /\ rResult = RetNone
    /\ timerFired = FALSE
    /\ woken = "poll"
    /\ ctxDone = FALSE
    /\ CBQuiet
    /\ RecQuiet
    /\ DLQQuiet

NextJitter ==
    \/ RetryStart
    \/ RetryAttempt

SpecJitter == InitJitter /\ [][NextJitter]_vars

\* ---- RetryOperation called again and again with one configuration, for
\* configurations over the whole scaled range of durations: backoffs at the top of
\* the range, an InitialBackoff above MaxBackoff, multipliers 0.5, 1.0 and 2.0
BackoffDurations == {1, 6, MaxDuration}

InitBackoff ==
    /\ rcfg \in [MaxRetries : {2}, InitialBackoff : BackoffDurations,
                 MaxBackoff : BackoffDurations, BackoffMultiplier : {5, 10, 20},
                 RetryableErrors : {PredNil}]
    /\ rpc = "idle"
    /\ attempt = 0
    /\ backoff = 0
    /\ sleepDuration = 0
    /\ lastErr = NoErr
    /\ rHist = <<>>
    /\ rSleeps = 0
    /\ rResult = RetNone
    /\ timerFired = FALSE
    /\ woken = "poll"
    /\ ctxDone = FALSE
    /\ CBQuiet
    /\ RecQuiet
    /\ DLQQuiet

NextBackoff ==
    \/ RetryStart
    \/ RetryAttempt
    \/ TimerFire
    \/ RetrySelectPark
    \/ RetrySelectTimer
    \/ RetryReturn

SpecBackoff == InitBackoff /\ [][NextBackoff]_vars

\* ---- the dead letter queue shared by concurrent goroutines; only Add reads the
\* clock (line 1462), so the clock is let advance just before that read, at most once
\* per call
InitDLQ ==
    /\ \E c \in Capacities : dlq = NewDeadLetterQueue(c)
    /\ dmu = [writer |-> 0, readers |-> {}]
    /\ dpc = [g \in Goroutines |-> "idle"]
    /\ dcall = [g \in Goroutines |-> NoCall]
    /\ dret = NoRet
    /\ notif = {}
    /\ dCalls = 0
    /\ CBQuiet
    /\ RetryQuiet
    /\ RecQuiet

NextDLQ ==
    \/ \E g \in Goroutines : AddCall(g)
    \/ \E g \in Goroutines : AddLock(g)
    \/ \E g \in Goroutines : AddCheck(g)
    \/ \E g \in Goroutines : AddStore(g)
    \/ \E g \in Goroutines : Get(g)
    \/ \E g \in Goroutines : Remove(g)
    \/ \E g \in Goroutines : List(g)
    \/ \E g \in Goroutines : Size(g)
    \/ \E g \in Goroutines : Clear(g)
    \/ \E g \in Goroutines : AddListener(g)
    \/ ListenerRun
    \/ ((\E g \in Goroutines : dpc[g] = "store") /\ now < dCalls /\ Tick)

SpecDLQ == InitDLQ /\ [][NextDLQ]_vars

\* The Go runtime runs every goroutine it has started.
FairSpecDLQ ==
    /\ SpecDLQ
    /\ WF_vars(ListenerRun)
    /\ \A g \in Goroutines : WF_vars(AddLock(g)) /\ WF_vars(AddCheck(g)) /\ WF_vars(AddStore(g))

\* ---- the dead letter queue with one registered listener that calls back into the
\* queue; Add is followed up to its return. The runtime runs the goroutines that
\* call Add; nothing is assumed about the listeners, which may never return.
InitDLQListen ==
    /\ \E c \in Capacities :
         dlq = [NewDeadLetterQueue(c) EXCEPT !.listeners = <<"L1">>]
    /\ dmu = [writer |-> 0, readers |-> {}]
    /\ dpc = [g \in Goroutines |-> "idle"]
    /\ dcall = [g \in Goroutines |-> NoCall]
    /\ dret = NoRet
    /\ notif = {}
    /\ dCalls = 0
    /\ CBQuiet
    /\ RetryQuiet
    /\ RecQuiet

NextDLQListen ==
    \/ \E g \in Goroutines : AddCall(g)
    \/ \E g \in Goroutines : AddLock(g)
    \/ \E g \in Goroutines : AddCheck(g)
    \/ \E g \in Goroutines : AddSpawn(g)
    \/ \E g \in Goroutines : AddReturn(g)
    \/ \E n \in notif, m \in ListenerMethods, id \in OpIDs : ListenerCallback(n, m, id)

SpecDLQListen == InitDLQListen /\ [][NextDLQListen]_vars

FairSpecDLQListen ==
    /\ SpecDLQListen
    /\ \A g \in Goroutines :
         /\ WF_vars(AddLock(g))
         /\ WF_vars(AddCheck(g))
         /\ WF_vars(AddSpawn(g))
         /\ WF_vars(AddReturn(g))

\* ---- the reconciler: passes for one NodePool, one at a time
Init ==
    /\ pspec \in PoolSpecs
    /\ obj \in [exists : {TRUE}, deleting : BOOLEAN, finalizer : BOOLEAN]
    /\ stStatus = EmptyStatus
    /\ \E n \in 0..MaxInitServers :
         /\ cloud = [i \in 1..n |-> [id |-> i, status |-> "running"]]
         /\ nextID = n + 1
    /\ pc = "idle"
    /\ np = [deleting |-> FALSE, finalizer |-> FALSE, phase |-> PhaseNone,
             cond |-> NoCond, currentNodes |-> 0, readyNodes |-> 0, nodes |-> <<>>]
    /\ servers = <<>>
    /\ pods = NoPods
    /\ preClamp = 0
    /\ desiredNodes = 0
    /\ idx = 0
    /\ calls = NoCalls
    /\ fault = FaultNone
    /\ ret = Return(ErrNone, FALSE)
    /\ passes = 0
    /\ got = GetNone
    /\ deleted = <<>>
    /\ lastDel = NoDelete
    /\ CBQuiet
    /\ RetryQuiet
    /\ ReconcilerDLQ

Next ==
    \/ (passes < MaxPasses /\ Fetch)
    \/ EnsureFinalizer
    \/ Observe
    \/ Decide
    \/ ScaleUpStep
    \/ ScaleUpDone
    \/ ScaleDownStep
    \/ ScaleDownDone
    \/ Publish
    \/ DeletionList
    \/ DeletionStep
    \/ RemoveFinalizer
    \/ UserDelete

Spec == Init /\ [][Next]_vars

\* ---- the reconciler on a NodePool that nobody deletes, with an explicit target
\* within [minNodes, maxNodes] and a provider whose ListServers, CreateServer and
\* DeleteServer succeed; passes follow one another without end
InitConv ==
    /\ Init
    /\ ~obj.deleting
    /\ pspec.targetNodes > 0
    /\ pspec.minNodes <= pspec.targetNodes
    /\ pspec.targetNodes <= pspec.maxNodes

NextConv ==
    \/ Fetch
    \/ EnsureFinalizer
    \/ (Observe /\ fault' # FaultList)
    \/ Decide
    \/ (ScaleUpStep /\ fault' # FaultCreate)
    \/ ScaleUpDone
    \/ (ScaleDownStep /\ fault' # FaultDelete)
    \/ ScaleDownDone
    \/ Publish

SpecConv == InitConv /\ [][NextConv]_vars

\* The controller keeps running passes and each pass runs to its end; a call of the
\* API server or a create workflow that is tried again and again succeeds in the end.
FairSpecConv ==
    /\ SpecConv
    /\ WF_vars(NextConv)
    /\ SF_vars(Fetch /\ got' = GetFound)
    /\ SF_vars(EnsureFinalizer /\ pc' = "observe")
    /\ SF_vars(ScaleUpStep /\ pc' = "scaleUp")
    /\ SF_vars(Publish /\ ret'.err = ErrNone)

(***************************************************************************)
(*                    PROPERTIES OF THE RECONCILER (Spec)                  *)
(***************************************************************************)

\* C1: in the deletion workflow the finalizer is removed from the stored object only
\* in a pass whose listing succeeded and whose delete call succeeded for every listed
\* server; a pass whose listing or whose delete call failed returns an error and
\* leaves the finalizer on the stored object.
C1_FinalizerOnlyAfterCleanup ==
    /\ [][ (obj.finalizer /\ ~obj'.finalizer) =>
             /\ np.deleting
             /\ calls.list = 1
             /\ fault = FaultNone
             /\ calls.delete = Len(servers)
             /\ \A i \in 1..Len(servers) : \A j \in 1..Len(cloud) :
                    cloud[j].id # servers[i].id
             /\ ret'.err = ErrNone ]_vars
    /\ [] ( (pc = "done" /\ np.deleting /\ calls.list = 1) =>
             /\ (fault # FaultNone) => (ret.err # ErrNone /\ obj.exists /\ obj.finalizer)
             /\ (ret.err # ErrNone) => (obj.exists /\ obj.finalizer)
             /\ (ret.err = ErrNone) => (~obj.finalizer /\ calls.delete = Len(servers)) )

\* A deletion pass listed two servers, deleted both and removed the finalizer.
C1_Witness ==
    /\ pc = "done"
    /\ np.deleting
    /\ calls.list = 1
    /\ Len(servers) = 2
    /\ calls.delete = 2
    /\ cloud = <<>>
    /\ ret.err = ErrNone
    /\ ~obj.finalizer

\* C2: a pass over an object without tombstone whose listing returns as many servers
\* as are desired makes no create and no delete call, leaves the provider as listed,
\* and ends with phase "Ready".
C2_SteadyStateIsIdempotent ==
    ( /\ pc \in {"scaleUp", "scaleDown", "publish", "done"}
      /\ ~np.deleting
      /\ calls.list = 1
      /\ fault # FaultList
      /\ Len(servers) = desiredNodes )
    =>
    ( /\ calls.create = 0
      /\ calls.delete = 0
      /\ cloud = servers
      /\ pc = "done" =>
           /\ np.phase = PhaseReady
           /\ ret.err \in {ErrNone, ErrStatusUpdate}
           /\ ret.err = ErrNone => (stStatus.phase = PhaseReady /\ ret.requeueAfter) )

\* min 1, max 5, target 3 and three running servers: the pass is over, nothing was
\* created or deleted, the status is "Ready" with 3 current and 3 ready nodes.
C2_Witness ==
    /\ pc = "done"
    /\ ~np.deleting
    /\ pspec.minNodes = 1 /\ pspec.maxNodes = 5 /\ pspec.targetNodes = 3
    /\ Len(servers) = 3
    /\ desiredNodes = 3
    /\ calls = [list |-> 1, create |-> 0, delete |-> 0]
    /\ ret = Return(ErrNone, TRUE)
    /\ stStatus.phase = PhaseReady
    /\ stStatus.currentNodes = 3
    /\ stStatus.readyNodes = 3

\* C3: with minNodes <= maxNodes the desired count of a pass is
\* max(minNodes, min(d, maxNodes)) for the count d chosen before the constraints; with
\* min 2, max 5, target 0, autoscaling on, no server and pending pods at the
\* threshold, d is 1, the desired count is 2 and a pass that succeeds made exactly 2
\* create calls.
C3_DesiredIsClamped ==
    ( /\ pc \in {"scaleUp", "scaleDown", "publish", "done"}
      /\ ~np.deleting
      /\ calls.list = 1
      /\ fault # FaultList )
    =>
    ( /\ pspec.minNodes <= pspec.maxNodes =>
           desiredNodes = Max(pspec.minNodes, Min(preClamp, pspec.maxNodes))
      /\ preClamp = ( IF pspec.targetNodes > 0 THEN pspec.targetNodes
                      ELSE IF ~pspec.autoScalingEnabled THEN pspec.minNodes
                      ELSE preClamp )
      /\ ( /\ pspec.minNodes = 2 /\ pspec.maxNodes = 5 /\ pspec.targetNodes = 0
           /\ pspec.autoScalingEnabled
           /\ Len(servers) = 0
           /\ ~pods.failed /\ pods.pending >= pspec.scaleUpThreshold )
         => ( /\ preClamp = 1
              /\ desiredNodes = 2
              /\ calls.create <= 2
              /\ calls.delete = 0
              /\ (pc = "done" /\ ret.err = ErrNone) => calls.create = 2 ) )

\* The pass of the example is over: d was 1, the desired count 2, two servers created.
C3_Witness ==
    /\ pc = "done"
    /\ ~np.deleting
    /\ pspec.minNodes = 2 /\ pspec.maxNodes = 5 /\ pspec.targetNodes = 0
    /\ pspec.autoScalingEnabled
    /\ Len(servers) = 0
    /\ pods.listed /\ ~pods.failed /\ pods.pending >= pspec.scaleUpThreshold
    /\ preClamp = 1
    /\ desiredNodes = 2
    /\ calls.create = 2
    /\ Len(cloud) = 2
    /\ ret.err = ErrNone

(***************************************************************************)
(*              PROPERTIES OF THE CIRCUIT BREAKER (SpecCB, SpecCBConc)     *)
(***************************************************************************)

\* C4: between calls the breaker is Open exactly when the run of consecutive failed
\* operations since the last success or Reset has reached maxFailures (so it is
\* still Closed after maxFailures - 1 of them), its counter equals that run while
\* Closed, and a success while Closed sets the counter to 0.
C4_OpensAfterMaxFailures ==
    /\ [] ( cpc[1] = "idle" =>
              /\ (cb.state = StateOpen) <=> (streak >= cb.maxFailures)
              /\ (cb.state = StateClosed) <=> (streak < cb.maxFailures)
              /\ cb.state = StateClosed => cb.failureCount = streak )
    /\ [][ (cpc[1] = "running" /\ cpc'[1] = "idle" /\ cb.state = StateClosed
            /\ cret'[1] = OpOK)
           => (cb'.state = StateClosed /\ cb'.failureCount = 0) ]_vars

\* maxFailures is 3: two failures, a success and two more failures leave the breaker
\* Closed with counter 2.
C4_Witness ==
    /\ cb.maxFailures = 3
    /\ cpc[1] = "idle"
    /\ opCalls = 5
    /\ streak = 2
    /\ cb.state = StateClosed
    /\ cb.failureCount = 2

\* C5: while the breaker is Open and no more than resetTimeout has passed since the
\* last failure, a call returns the circuit-open error, the operation is not invoked
\* and the breaker is left as it is; the breaker leaves Open for HalfOpen only in a
\* call made after more than resetTimeout, and the counter is 0 before the operation
\* of that call is invoked.
C5_OpenRejectsUntilTimeout ==
    /\ [][ (cb.state = StateOpen /\ now - cb.lastFailureTime <= cb.resetTimeout) =>
             /\ opCalls' = opCalls
             /\ cb'.state # StateHalfOpen
             /\ nExec' # nExec =>
                  (cret'[1] = ErrCircuitOpen /\ cpc'[1] = "idle" /\ cb' = cb) ]_vars
    /\ [][ (cb.state = StateOpen /\ cb'.state = StateHalfOpen) =>
             /\ now - cb.lastFailureTime > cb.resetTimeout
             /\ nExec' = nExec + 1
             /\ cpc'[1] = "admitted"
             /\ opCalls' = opCalls
             /\ cb'.failureCount = 0 ]_vars
    /\ [] ( (cpc[1] = "admitted" /\ cb.state = StateHalfOpen) => cb.failureCount = 0 )

\* A call made exactly resetTimeout after the failure that opened the breaker was
\* rejected.
C5_Witness ==
    /\ cb.state = StateOpen
    /\ cb.resetTimeout = 2
    /\ now - cb.lastFailureTime = cb.resetTimeout
    /\ cpc[1] = "idle"
    /\ cret[1] = ErrCircuitOpen
    /\ opCalls = cb.maxFailures
    /\ nExec = opCalls + 1

\* C6: the probe of a HalfOpen breaker, when it succeeds, leaves the breaker Closed
\* with counter 0, and when it fails leaves it Open with lastFailureTime the time of
\* that failure.
C6_ProbeOutcome ==
    [][ (cpc[1] = "running" /\ cpc'[1] = "idle" /\ cb.state = StateHalfOpen) =>
          IF cret'[1] = OpOK
          THEN cb'.state = StateClosed /\ cb'.failureCount = 0
          ELSE cb'.state = StateOpen /\ cb'.lastFailureTime = now ]_vars

\* The probe failed: the breaker is Open again, its counter restarted from 0, and the
\* last failure is the probe's.
C6_Witness ==
    /\ cb.maxFailures = 3
    /\ cb.state = StateOpen
    /\ cb.failureCount = 1
    /\ cret[1] = OpFail
    /\ cb.lastFailureTime = now
    /\ opCalls = cb.maxFailures + 1

\* C7: of the calls that passed the switch with the breaker HalfOpen, at most one is
\* between the switch and the report of its operation.
C7_SingleProbe ==
    Cardinality({c \in Callers : probe[c] /\ cpc[c] \in {"admitted", "running"}}) <= 1

(***************************************************************************)
(*               PROPERTIES OF RetryOperation (SpecRetry)                  *)
(***************************************************************************)

\* C8: a call whose every attempt failed with an error the configuration retries,
\* and whose context was not canceled, ends after exactly MaxRetries + 1 invocations
\* and exactly MaxRetries sleeps, and returns an error that wraps
\* ErrMaxRetriesExceeded and the failure of the last attempt; every call ends.
C8_ExhaustsAfterMaxRetries ==
    /\ [] ( ( /\ rpc = "done"
              /\ ~ctxDone
              /\ \A i \in 1..Len(rHist) :
                     /\ rHist[i] \in OpErrors
                     /\ (rcfg.RetryableErrors = PredNil
                         \/ PredAccepts(rcfg.RetryableErrors, rHist[i])) )
            => ( /\ Len(rHist) = rcfg.MaxRetries + 1
                 /\ rSleeps = rcfg.MaxRetries
                 /\ rResult.kind = "maxRetries"
                 /\ rResult.attempts = rcfg.MaxRetries + 1
                 /\ rResult.wraps = {ErrMaxRetriesExceeded, rHist[Len(rHist)]} ) )
    /\ [] (Len(rHist) <= rcfg.MaxRetries + 1 /\ rSleeps <= rcfg.MaxRetries)
    /\ (rpc = "loop") ~> (rpc = "done")

\* MaxRetries is 3: four failed attempts, the last with another error than the first,
\* three sleeps, and the call returned.
C8_Witness ==
    /\ rpc = "done"
    /\ ~ctxDone
    /\ rcfg.MaxRetries = 3
    /\ rHist = <<ErrTimeout, ErrTimeout, ErrTimeout, ErrConnReset>>
    /\ rSleeps = 3
    /\ rResult.kind = "maxRetries"

\* C9: a call that has returned after a successful attempt returned nil, that
\* attempt was the last invocation and the only successful one, and the attempts
\* before it were at most MaxRetries; a call whose context was not canceled does not
\* return after k <= MaxRetries retryable failures without making invocation k + 1.
C9_SucceedsAfterFailures ==
    rpc = "done" =>
      LET n == Len(rHist)
          Retried(e) == /\ e \in OpErrors
                        /\ (rcfg.RetryableErrors = PredNil
                            \/ PredAccepts(rcfg.RetryableErrors, e))
      IN  /\ (\E i \in 1..n : rHist[i] = OpOK) =>
                /\ rHist[n] = OpOK
                /\ \A i \in 1..(n - 1) : Retried(rHist[i])
                /\ n - 1 <= rcfg.MaxRetries
                /\ rSleeps = n - 1
                /\ rResult = RetNil
          /\ (rResult = RetNil) => (n >= 1 /\ rHist[n] = OpOK)
          /\ (~ctxDone /\ \A i \in 1..n : Retried(rHist[i])) => n > rcfg.MaxRetries

\* MaxRetries is 3, every error is retried: two failures, then a success; nil is
\* returned after three invocations.
C9_Witness ==
    /\ rpc = "done"
    /\ rcfg.MaxRetries = 3
    /\ rcfg.RetryableErrors = PredAlways
    /\ rHist = <<ErrTimeout, ErrConnReset, OpOK>>
    /\ rResult = RetNil

\* C10: once an attempt has failed with an error for which the configured predicate
\* returns false, the call has returned: that attempt is the last invocation, no
\* sleep followed it, the result wraps that error and is not the max-retries error;
\* when it is the first error the operation was invoked exactly once.
C10_NonRetryableStopsAtOnce ==
    LET n == Len(rHist)
        Rejected(e) == /\ e \in OpErrors
                       /\ rcfg.RetryableErrors # PredNil
                       /\ ~PredAccepts(rcfg.RetryableErrors, e)
    IN  (\E i \in 1..n : Rejected(rHist[i])) =>
          /\ rpc = "done"
          /\ Rejected(rHist[n])
          /\ \A i \in 1..(n - 1) : rHist[i] \in OpErrors /\ ~Rejected(rHist[i])
          /\ Rejected(rHist[1]) => n = 1
          /\ rSleeps = n - 1
          /\ rResult = RetNonRetryable(rHist[n])
          /\ rResult.kind # "maxRetries"
          /\ ErrMaxRetriesExceeded \notin rResult.wraps

\* MaxRetries is 3 and the predicate is IsRetryableError: the first attempt failed
\* with "unauthorized" and the call returned after that one invocation.
C10_Witness ==
    /\ rpc = "done"
    /\ rcfg.MaxRetries = 3
    /\ rcfg.RetryableErrors = PredDefault
    /\ rHist = <<ErrUnauthorized>>
    /\ rSleeps = 0
    /\ rResult = RetNonRetryable(ErrUnauthorized)

\* C11: a cancellation that arrives while the call is blocked in the select of a
\* backoff sleep wakes the select with the ctx.Done() case; from then on the
\* operation is not invoked and no sleep completes, the call returns, and what it
\* returns wraps the context's error and not ErrMaxRetriesExceeded.
C11_CancelDuringSleep ==
    /\ [][ (rpc = "sleep" /\ woken = "parked" /\ ~ctxDone /\ ctxDone') =>
             woken' = "ctx" ]_vars
    /\ [][ (woken = "ctx") =>
             /\ rHist' = rHist
             /\ rSleeps' = rSleeps
             /\ rpc' \in {"sleep", "done"}
             /\ rpc' = "done" => rResult' = RetCanceled ]_vars
    /\ [] ( rResult.kind = "canceled" =>
              /\ rpc = "done"
              /\ ctxDone
              /\ CtxCanceled \in rResult.wraps
              /\ ErrMaxRetriesExceeded \notin rResult.wraps
              /\ rResult # RetMaxRetries(rcfg, lastErr) )
    /\ (woken = "ctx") ~> (rpc = "done" /\ rResult = RetCanceled)

\* MaxRetries is 3: the second sleep was interrupted by the cancellation; two
\* invocations were made, one sleep completed, and the call returned canceled.
C11_Witness ==
    /\ rpc = "done"
    /\ rcfg.MaxRetries = 3
    /\ woken = "ctx"
    /\ ~timerFired
    /\ Len(rHist) = 2
    /\ rSleeps = 1
    /\ rResult = RetCanceled

\* C12: the sleep computed from backoff b and ceiling max, both non-negative, lies in
\* [b, max] when b <= max and equals max when b > max.
C12_JitterInRange ==
    rpc = "sleep" =>
      IF backoff <= rcfg.MaxBackoff
      THEN backoff <= sleepDuration /\ sleepDuration <= rcfg.MaxBackoff
      ELSE sleepDuration = rcfg.MaxBackoff

(***************************************************************************)
(*            PROPERTIES OF RetryWithCircuitBreaker (SpecRetryCB)          *)
(***************************************************************************)

\* C13: every attempt of the loop is one call of Execute; an attempt made while the
\* breaker is Open and within resetTimeout yields ErrCircuitOpen without invoking
\* the wrapped operation, and is an attempt like any other: executed and rejected
\* attempts together never exceed MaxRetries + 1, and a call that returns the
\* max-retries error made exactly that many.
C13_RejectionsCountAsAttempts ==
    /\ [] ( /\ Len(rHist) = nExec
            /\ nExec <= rcfg.MaxRetries + 1
            /\ opCalls = Cardinality({i \in 1..Len(rHist) : rHist[i] # ErrCircuitOpen})
            /\ (rpc = "done" /\ rResult.kind = "maxRetries") =>
                  Len(rHist) = rcfg.MaxRetries + 1 )
    /\ [][ (cb.state = StateOpen /\ now - cb.lastFailureTime <= cb.resetTimeout) =>
             /\ opCalls' = opCalls
             /\ nExec' # nExec =>
                  (rHist' = Append(rHist, ErrCircuitOpen) /\ cb' = cb) ]_vars
    /\ [][ (rpc = "sleep" /\ rpc' = "loop") => attempt' = attempt + 1 ]_vars

\* maxFailures 1, MaxRetries 3, no predicate: the first attempt failed and opened the
\* breaker, the three that followed were rejected; the operation ran once.
C13_Witness ==
    /\ rpc = "done"
    /\ rcfg.MaxRetries = 3
    /\ rHist = <<ErrTimeout, ErrCircuitOpen, ErrCircuitOpen, ErrCircuitOpen>>
    /\ opCalls = 1
    /\ nExec = 4
    /\ rResult = RetMaxRetries(rcfg, ErrCircuitOpen)

\* C14: after an attempt that the Open breaker rejected the call has returned,
\* without a backoff sleep, an error that wraps ErrCircuitOpen.
C14_RejectionSurfacesAtOnce ==
    (rHist # <<>> /\ rHist[Len(rHist)] = ErrCircuitOpen) =>
        /\ rpc = "done"
        /\ ErrCircuitOpen \in rResult.wraps

(***************************************************************************)
(*                 PROPERTIES OF DeadLetterQueue (SpecDLQ)                 *)
(***************************************************************************)

\* C15: the store never holds more than its capacity, and an Add whose capacity test
\* finds the store holding as many entries as the capacity returns ErrQueueFull,
\* leaving the stored entries as they were and starting no listener.
C15_AddRefusedAtCapacity ==
    /\ [] (QueueSize(dlq) <= dlq.maxSize)
    /\ [][ \A g \in Goroutines :
             (dpc[g] = "check" /\ dpc'[g] # "check" /\ QueueSize(dlq) = dlq.maxSize) =>
               /\ dpc'[g] = "idle"
               /\ dret'.call = dcall[g]
               /\ dret'.err = ErrQueueFull
               /\ dlq' = dlq
               /\ notif' = notif ]_vars

\* Capacity 2: two Adds stored op-1 and op-2, the third Add, of op-3, returned
\* ErrQueueFull and the two entries are still the only ones.
C15_Witness ==
    /\ dlq.maxSize = 2
    /\ Keys(dlq) = {"op-1", "op-2"}
    /\ dCalls = 3
    /\ dret.call.m = "Add"
    /\ dret.call.id = "op-3"
    /\ dret.call.n = 3
    /\ dret.err = ErrQueueFull
    /\ \A g \in Goroutines : dpc[g] = "idle"

\* C16: the step of Add that stores an entry starts one listener goroutine for every
\* registration made so far (one per position of the listener list), each with the
\* entry just stored; an Add that returns ErrQueueFull starts none, and neither does
\* any other step; a started listener runs once, and every started listener has
\* eventually run.
C16_ListenersNotifiedOncePerStoredEntry ==
    /\ [][ \A g \in Goroutines :
             IF dpc[g] = "store" /\ dpc'[g] = "idle"
             THEN /\ dret'.err = "nil"
                  /\ notif \subseteq notif'
                  /\ \A n \in notif' \ notif :
                       /\ n.call = dcall[g].n
                       /\ n.pos \in 1..Len(dlq.listeners)
                       /\ n.listener = dlq.listeners[n.pos]
                       /\ n.entry = dlq'.operations[dcall[g].id]
                       /\ ~n.ran
                  /\ \A i \in 1..Len(dlq.listeners) :
                       Cardinality({n \in notif' \ notif : n.pos = i}) = 1
             ELSE (dpc[g] # dpc'[g]) =>
                    {[n EXCEPT !.ran = FALSE] : n \in notif'} =
                    {[n EXCEPT !.ran = FALSE] : n \in notif} ]_vars
    /\ [][ /\ Cardinality(notif') >= Cardinality(notif)
           /\ \A n \in notif : n.ran => n \in notif' ]_vars
    /\ <>[] (\A n \in notif : n.ran)

\* Two listeners were registered, then Add stored op-1: both have run, each once,
\* with the stored entry.
C16_Witness ==
    /\ Len(dlq.listeners) = 2
    /\ dCalls = 3
    /\ Keys(dlq) = {"op-1"}
    /\ dret.call.m = "Add"
    /\ dret.err = "nil"
    /\ Cardinality(notif) = 2
    /\ \A n \in notif : n.ran /\ n.entry = dlq.operations["op-1"] /\ n.call = 3
    /\ {n.pos : n \in notif} = {1, 2}

\* C17: at most one goroutine is between Lock and Unlock, and it is the one the mutex
\* records; while a goroutine is there no other call reads or changes the store or
\* returns; an Add that stores found the store below capacity at that very step, so
\* the store never exceeds its capacity.
C17_CallsAreAtomic ==
    /\ [] ( /\ Cardinality({g \in Goroutines : dpc[g] \in {"check", "store"}}) <= 1
            /\ \A g \in Goroutines : dpc[g] \in {"check", "store"} <=> dmu.writer = g
            /\ QueueSize(dlq) <= dlq.maxSize )
    /\ [][ \A g \in Goroutines :
             /\ (dpc[g] \in {"check", "store"} /\ dpc'[g] = dpc[g]) =>
                   (dlq' = dlq /\ dret' = dret)
             /\ (dpc[g] = "store" /\ dpc'[g] = "idle") =>
                   QueueSize(dlq) < dlq.maxSize ]_vars

\* Capacity 1, the store empty: goroutine 1 has passed the capacity test and is about
\* to store while goroutine 2 waits for the lock with an Add of another ID.
C17_Witness ==
    /\ dlq.maxSize = 1
    /\ QueueSize(dlq) = 0
    /\ dpc[1] = "store"
    /\ dpc[2] = "lock"
    /\ dcall[1].id # dcall[2].id

(***************************************************************************)
(*          PROPERTIES OF THE SCALE-UP AND SCALE-DOWN WORKFLOWS (Spec)     *)
(***************************************************************************)

\* C18: a pass that observed fewer servers than desired runs the create workflow once
\* per iteration; when none fails it leaves the scale-up block after exactly
\* desiredNodes - len(servers) creates. The iteration whose workflow fails ends the
\* pass: the phase becomes "ScaleUpFailed", the pass returns the create error with
\* RequeueAfter, and no create is issued until the next pass starts.
C18_ScaleUpStopsAtFirstFailure ==
    /\ [] ( /\ pc = "scaleUp" => calls.create = idx
            /\ pc \in {"scaleDown", "publish"} =>
                 calls.create = IF Len(servers) < desiredNodes
                                THEN desiredNodes - Len(servers) ELSE 0 )
    /\ [][ (pc = "scaleUp" /\ <<pc, idx, calls, cloud>>' # <<pc, idx, calls, cloud>>) =>
             IF pc' = "scaleUp"
             THEN /\ calls'.create = calls.create + 1
                  /\ idx' = idx + 1
                  /\ Len(cloud') = Len(cloud) + 1
                  /\ ret' = ret
                  /\ np' = np
             ELSE IF pc' = "done"
             THEN /\ idx < desiredNodes - Len(servers)
                  /\ np'.phase = PhaseScaleUpFailed
                  /\ ret' = Return(ErrCreate, TRUE)
                  /\ cloud' = cloud
                  /\ calls'.create \in {calls.create, calls.create + 1}
             ELSE /\ pc' = "scaleDown"
                  /\ calls' = calls
                  /\ cloud' = cloud ]_vars
    /\ [][ calls'.create > calls.create =>
             (pc = "scaleUp" /\ calls'.create = calls.create + 1) ]_vars

\* One server observed, three wanted: the first create succeeded, the provider
\* refused the second, and the pass ended there with two creates issued.
C18_Witness ==
    /\ pc = "done"
    /\ Len(servers) = 1
    /\ desiredNodes = 3
    /\ calls.create = 2
    /\ fault = FaultCreate
    /\ Len(cloud) = 2
    /\ np.phase = PhaseScaleUpFailed
    /\ ret = Return(ErrCreate, TRUE)

\* C19: a pass that observed more servers than desired gives the provider's
\* DeleteServer the IDs of servers[0], servers[1], ... in that order; when every delete
\* succeeds it leaves the scale-down block after exactly len(servers) - desiredNodes of
\* them, and the provider keeps the rest of the listing. A failing delete ends the
\* pass: the phase becomes "ScaleDownFailed", the pass returns the delete error with
\* RequeueAfter, and no delete is issued until the next pass starts.
C19_ScaleDownTakesFirstListed ==
    /\ [] ( /\ pc = "scaleDown" =>
                 deleted = [i \in 1..idx |-> servers[i].id]
            /\ pc = "publish" =>
                 LET n == IF Len(servers) > desiredNodes
                          THEN Len(servers) - desiredNodes ELSE 0
                 IN  /\ deleted = [i \in 1..n |-> servers[i].id]
                     /\ calls.delete = n
                     /\ n > 0 => cloud = SubSeq(servers, n + 1, Len(servers)) )
    /\ [][ (pc = "scaleDown" /\ pc' = "done") =>
             /\ idx < Len(servers) - desiredNodes
             /\ deleted' = Append(deleted, servers[idx + 1].id)
             /\ cloud' = cloud
             /\ np'.phase = PhaseScaleDownFailed
             /\ ret' = Return(ErrDelete, TRUE) ]_vars
    /\ [][ calls'.delete > calls.delete =>
             (pc \in {"scaleDown", "cleanup"} /\ calls'.delete = calls.delete + 1) ]_vars

\* Three servers listed, one wanted: the first two of the listing were deleted, in
\* that order, and the third is what the provider still holds.
C19_Witness ==
    /\ pc = "publish"
    /\ Len(servers) = 3
    /\ desiredNodes = 1
    /\ deleted = <<servers[1].id, servers[2].id>>
    /\ cloud = <<servers[3]>>

\* C20: every run of deleteServer, in scale-down and in the deletion workflow, calls
\* drainNode before the provider's DeleteServer and calls DeleteServer whatever
\* drainNode returned; the run returns an error, and so ends the pass, exactly when
\* the provider's DeleteServer failed.
C20_DrainIsBestEffort ==
    /\ [] ( lastDel # NoDelete =>
              \E i, j \in 1..Len(lastDel.steps) :
                 /\ i < j
                 /\ lastDel.steps[i] = "drainNode"
                 /\ lastDel.steps[j] = "DeleteServer"
                 /\ \A k \in 1..i : lastDel.steps[k] # "DeleteServer" )
    /\ [][ (pc \in {"scaleDown", "cleanup"} /\ lastDel' # lastDel) =>
             /\ lastDel'.drain \in DrainOutcomes
             /\ calls'.delete = calls.delete + 1
             /\ deleted' = Append(deleted, lastDel'.id)
             /\ (lastDel'.err # ErrNone) <=> (cloud' = cloud /\ fault' = FaultDelete)
             /\ (pc' = "done" /\ ret'.err = ErrDelete) <=> (cloud' = cloud)
             /\ (cloud' # cloud) => cloud' = CloudWithout(cloud, lastDel'.id) ]_vars

\* The drain of the first listed server failed, its provider delete succeeded, and the
\* scale-down loop goes on to the next server.
C20_Witness ==
    /\ pc = "scaleDown"
    /\ idx = 1
    /\ idx < Len(servers) - desiredNodes
    /\ lastDel.id = servers[1].id
    /\ lastDel.drain = DrainFailed
    /\ lastDel.err = ErrNone
    /\ Len(cloud) = Len(servers) - 1

(***************************************************************************)
(*              PROPERTIES OF THE DESIRED-CAPACITY DECISION (Spec)         *)
(***************************************************************************)

\* C21: in a pass that determined its desired count, a positive targetNodes is the
\* count before the constraints, whatever autoScalingEnabled, the pending pods and the
\* number of servers are, and the pods are not even listed; the autoscaling rule
\* (which lists the pods) is applied only with targetNodes = 0.
C21_TargetTakesPriority ==
    ( \/ pc \in {"scaleUp", "scaleDown", "publish"}
      \/ (pc = "done" /\ got = GetFound /\ ~np.deleting /\ calls.list = 1
            /\ fault # FaultList) )
    =>
    ( /\ pspec.targetNodes > 0 => (preClamp = pspec.targetNodes /\ ~pods.listed)
      /\ pods.listed <=> (pspec.targetNodes = 0 /\ pspec.autoScalingEnabled) )

\* targetNodes 3 with autoscaling enabled, minNodes 0 and one server listed: the count
\* before the constraints is 3, where the autoscaling rule would have kept or removed
\* the one server.
C21_Witness ==
    /\ pc = "scaleUp"
    /\ pspec.targetNodes = 3
    /\ pspec.autoScalingEnabled
    /\ pspec.minNodes = 0
    /\ Len(servers) = 1
    /\ preClamp = 3
    /\ ~pods.listed

C23_AbsentNodePoolIsIgnored ==
    /\ [][ (pc \in {"idle", "done"} /\ passes' # passes /\ ~obj.exists
             /\ got' # GetFailed) =>
             /\ got' = GetNotFound
             /\ pc' = "done"
             /\ ret' = Return(ErrNone, FALSE)
             /\ calls' = NoCalls
             /\ <<cloud, obj, stStatus>>' = <<cloud, obj, stStatus>> ]_vars
    /\ [] ( (pc = "done" /\ got = GetNotFound) =>
              (ret = Return(ErrNone, FALSE) /\ calls = NoCalls) )
    /\ [][ (pc = "done" /\ passes' = passes) => (calls' = calls /\ cloud' = cloud) ]_vars

\* The NodePool is gone while the provider still holds two servers: the pass found
\* nothing, returned nil and called nothing.
C23_Witness ==
    /\ pc = "done"
    /\ got = GetNotFound
    /\ ~obj.exists
    /\ Len(cloud) = 2
    /\ calls = NoCalls
    /\ ret = Return(ErrNone, FALSE)

\* C24: when ListServers fails in a pass over a NodePool without deletion timestamp,
\* the pass ends at once: no CreateServer and no DeleteServer call was made, the phase
\* is "Error" with a condition carrying the error, and the pass returns the error with
\* RequeueAfter.
C24_ListFailureEndsThePass ==
    /\ [][ (pc = "observe" /\ pc' = "done") =>
             /\ ~np.deleting
             /\ fault' = FaultList
             /\ calls'.create = 0
             /\ calls'.delete = 0
             /\ cloud' = cloud
             /\ np'.phase = PhaseError
             /\ np'.cond = [reason |-> PhaseError, message |-> ErrList]
             /\ stStatus' # stStatus => stStatus'.phase = PhaseError
             /\ ret' = Return(ErrList, TRUE) ]_vars
    /\ [] ( (pc = "done" /\ fault = FaultList /\ ~np.deleting) =>
              /\ calls = [list |-> 1, create |-> 0, delete |-> 0]
              /\ np.phase = PhaseError
              /\ ret = Return(ErrList, TRUE) )

\* The listing failed with one server at the provider: the pass is over, phase "Error"
\* is stored, the error is returned with RequeueAfter.
C24_Witness ==
    /\ pc = "done"
    /\ ~np.deleting
    /\ fault = FaultList
    /\ Len(cloud) = 1
    /\ np.phase = PhaseError
    /\ stStatus.phase = PhaseError
    /\ ret = Return(ErrList, TRUE)

\* C25: a pass that returned an error has set a failure phase and appended a condition
\* carrying that error.
C25_ErrorsAreWrittenToStatus ==
    (pc = "done" /\ ret.err # ErrNone) =>
        /\ np.phase \in {PhaseError, PhaseScaleUpFailed, PhaseScaleDownFailed}
        /\ np.cond.message = ret.err

\* C26: when a pass ended on a failed provider call, the reconciler's dead letter
\* queue holds a FailedOperation.
C26_FailedOperationIsRecorded ==
    (pc = "done" /\ fault # FaultNone) =>
        (dCalls > 0 /\ \E id \in OpIDs : dlq.operations[id] # NoEntry)

\* C28: when the engine removes the finalizer the provider holds no server of the
\* pool, and none appears afterwards; no CreateServer call is made while the NodePool
\* carries a deletion timestamp.
C28_NothingOutlivesFinalization ==
    /\ [][ (obj.finalizer /\ ~obj'.finalizer) => cloud' = <<>> ]_vars
    /\ [][ ~obj.exists => cloud' = cloud ]_vars
    /\ [][ calls'.create > calls.create => ~obj.deleting ]_vars

\* C29: a pass over a NodePool without deletion timestamp makes its first provider
\* call only with the finalizer present in the stored object; when it has to add the
\* finalizer and the Update fails, the pass returns that error without any provider
\* call.
C29_FinalizerBeforeProviderCalls ==
    /\ [][ (calls = NoCalls /\ calls' # NoCalls /\ ~np.deleting) =>
             (np.finalizer /\ obj.exists /\ obj.finalizer) ]_vars
    /\ [][ (pc = "finalizer" /\ pc' = "observe") =>
             (np'.finalizer /\ obj'.finalizer /\ calls' = NoCalls) ]_vars
    /\ [][ (pc = "finalizer" /\ pc' = "done") =>
             /\ ~np.finalizer
             /\ ret' = Return(ErrUpdate, FALSE)
             /\ calls' = NoCalls
             /\ obj' = obj
             /\ cloud' = cloud ]_vars

\* The Update that should have stored the finalizer failed: the pass is over with that
\* error, the stored object has no finalizer and the provider was not called.
C29_Witness ==
    /\ pc = "done"
    /\ got = GetFound
    /\ ~np.deleting
    /\ np.finalizer
    /\ ~obj.finalizer
    /\ ret = Return(ErrUpdate, FALSE)
    /\ calls = NoCalls
    /\ Len(cloud) = 1

\* C30: a pass that reads a NodePool with deletion timestamp goes to handleDeletion and
\* nowhere else: it does not add the finalizer, determines no desired count, lists no
\* pods, makes no CreateServer call and writes no status.
C30_DeletionPassDoesNothingElse ==
    /\ [][ (pc \in {"idle", "done"} /\ passes' # passes /\ got' = GetFound
             /\ obj.deleting) => pc' = "handleDeletion" ]_vars
    /\ [] ( pc \in {"handleDeletion", "cleanup"} =>
              /\ np.deleting
              /\ calls.create = 0
              /\ ~pods.listed
              /\ preClamp = 0
              /\ desiredNodes = 0 )
    /\ [][ (pc \in {"handleDeletion", "cleanup"}) =>
             /\ pc' \in {"handleDeletion", "cleanup", "done"}
             /\ calls'.create = 0
             /\ Len(cloud') <= Len(cloud)
             /\ stStatus' = stStatus
             /\ np'.phase = np.phase
             /\ (obj'.finalizer => obj.finalizer) ]_vars

\* A first pass published "Ready"; the second read the deletion timestamp, deleted the
\* two servers and removed the finalizer: the stored phase is still the one of the
\* first pass and nothing was created.
C30_Witness ==
    /\ pc = "done"
    /\ passes = 2
    /\ got = GetFound
    /\ np.deleting
    /\ calls = [list |-> 1, create |-> 0, delete |-> 2]
    /\ stStatus.phase = PhaseReady
    /\ ~obj.exists
    /\ ret = Return(ErrNone, FALSE)

(***************************************************************************)
(*                PROPERTIES OF REPEATED PASSES (FairSpecConv)             *)
(***************************************************************************)

C31_ListFailureIsCountedByBreaker ==
    [][ (pc = "observe" /\ fault' = FaultList) =>
            (cb' # cb \/ calls'.list = calls.list) ]_vars

(***************************************************************************)
(*          PROPERTIES OF THE SHARED CircuitBreaker (SpecCBRace)           *)
(***************************************************************************)

\* C32: concurrent Execute calls lose no update of the failure counter: when no call
\* is in progress and at least maxFailures operations have failed in a row since the
\* last success, the breaker is Open; while it is Closed its counter equals the
\* number of failures in that row.
C32_NoLostFailureCount ==
    (\A c \in Callers : cpc[c] = "idle") =>
        /\ streak >= cb.maxFailures => cb.state = StateOpen
        /\ cb.state = StateClosed => cb.failureCount = streak

(***************************************************************************)
(*              FURTHER PROPERTIES OF DeadLetterQueue (SpecDLQ)            *)
(***************************************************************************)

\* C33: an entry stored under an identifier keeps its contents until Remove or Clear
\* takes it out: no step changes a stored entry, and a stored entry disappears only
\* in a Remove or Clear call.
C33_StoredEntriesAreImmutable ==
    [][ \A id \in OpIDs :
          (dlq.operations[id] # NoEntry) =>
              \/ dlq'.operations[id] = dlq.operations[id]
              \/ /\ dlq'.operations[id] = NoEntry
                 /\ dret'.call.m \in {"Remove", "Clear"} ]_vars

(***************************************************************************)
(*     PROPERTIES OF DeadLetterQueue LISTENERS (FairSpecDLQListen)         *)
(***************************************************************************)

\* C34: Add does not wait for the listeners it starts: an Add that has started its
\* listeners can return at once, and every Add call returns even if no listener ever
\* finishes (the calls of a behaviour being finitely many, in the end no call is in
\* progress and the lock is free); a listener that calls back into the queue (Get,
\* Remove, List, Add) is never stuck: whenever the lock is free the pending
\* listener's call can complete (an Add only needs a call left in the bound).
C34_ListenersNeverBlockAdd ==
    /\ [] (\A g \in Goroutines : dpc[g] = "return" => ENABLED AddReturn(g))
    /\ <>[] ((\A g \in Goroutines : dpc[g] = "idle") /\ CanLock(dmu))
    /\ [] (CanLock(dmu) =>
             \A n \in notif : ~n.ran =>
                 \A m \in ListenerMethods, id \in OpIDs :
                     (m = "Add" => dCalls < MaxDlqCalls) =>
                         ENABLED ListenerCallback(n, m, id))
    /\ [][ \A g \in Goroutines :
             (dpc[g] = "return" /\ dpc'[g] = "idle") =>
                 (dret'.err = "nil" /\ notif' = notif) ]_vars

\* An Add stored op-1 and returned; its listener then called Add for op-2 from its
\* own goroutine and returned; the listener started by that second Add has not run.
C34_Witness ==
    /\ \A g \in Goroutines : dpc[g] = "idle"
    /\ dret.call.m = "Add" /\ dret.call.n = 1 /\ dret.err = "nil"
    /\ dCalls = 2
    /\ Keys(dlq) = {"op-1", "op-2"}
    /\ \E n \in notif : n.call = 1 /\ n.ran /\ n.entry.ID = "op-1"
    /\ \E n \in notif : n.call = 2 /\ ~n.ran /\ n.entry.ID = "op-2"

(***************************************************************************)
(*           PROPERTIES OF THE BACKOFF STATE (SpecBackoff)                 *)
(***************************************************************************)

\* C35: every RetryOperation call starts with backoff = InitialBackoff, whatever the
\* calls before it did; each completed sleep replaces the backoff b by
\* min(b * BackoffMultiplier, MaxBackoff); with a multiplier of at least 1 the
\* backoff never decreases; and during a call it is never above MaxBackoff.
C35_BackoffGrowth ==
    /\ [][ (rpc = "idle" /\ rpc' = "loop") => backoff' = rcfg.InitialBackoff ]_vars
    /\ [][ (rpc = "sleep" /\ rpc' = "loop") =>
               backoff' = Min((backoff * rcfg.BackoffMultiplier) \div 10,
                              rcfg.MaxBackoff) ]_vars
    /\ [][ (rpc = "sleep" /\ rpc' = "loop" /\ rcfg.BackoffMultiplier >= 10) =>
               backoff' >= backoff ]_vars
    /\ [] (rpc \in {"loop", "sleep"} => backoff <= rcfg.MaxBackoff)

(***************************************************************************)
(*            FURTHER PROPERTIES OF THE RECONCILER (Spec)                  *)
(***************************************************************************)

\* C36: with minNodes <= maxNodes, in a pass over a NodePool fetched without deletion
\* timestamp no create call leaves the provider with more than maxNodes servers and
\* no delete call leaves it with fewer than minNodes; such a pass that returns
\* without error leaves the number of servers within [minNodes, maxNodes], wherever
\* it started.
C36_PoolSizeStaysWithinBounds ==
    /\ [][ (pspec.minNodes <= pspec.maxNodes /\ ~np.deleting
              /\ calls'.create > calls.create) =>
                Len(cloud') <= pspec.maxNodes ]_vars
    /\ [][ (pspec.minNodes <= pspec.maxNodes /\ ~np.deleting
              /\ calls'.delete > calls.delete) =>
                Len(cloud') >= pspec.minNodes ]_vars
    /\ [] ( (pspec.minNodes <= pspec.maxNodes /\ pc = "done" /\ got = GetFound
               /\ ~np.deleting /\ calls.list = 1 /\ ret.err = ErrNone) =>
              (pspec.minNodes <= Len(cloud) /\ Len(cloud) <= pspec.maxNodes) )

\* A pass listed three servers for a pool with minNodes 1 and maxNodes 2, deleted one
\* and returned without error: two servers are left.
C36_Witness ==
    /\ pspec.minNodes = 1 /\ pspec.maxNodes = 2
    /\ pc = "done"
    /\ ~np.deleting
    /\ Len(servers) = 3
    /\ calls = [list |-> 1, create |-> 0, delete |-> 1]
    /\ Len(cloud) = 2
    /\ ret.err = ErrNone

(***************************************************************************)
(*           FURTHER PROPERTIES OF THE CIRCUIT BREAKER (SpecCB)            *)
(***************************************************************************)

\* C37: used by one call at a time, a breaker with maxFailures >= 1 that is Closed
\* has a failure counter below maxFailures; every step that takes the breaker into
\* Closed or into HalfOpen leaves the counter at 0, and so does Reset.
C37_CounterInvariant ==
    /\ [] (cb.state = StateClosed => cb.failureCount < cb.maxFailures)
    /\ [][ (cb'.state # cb.state /\ cb'.state \in {StateClosed, StateHalfOpen}) =>
               cb'.failureCount = 0 ]_vars
    /\ [][ (cb' # cb /\ cpc' = cpc /\ nExec' = nExec) =>
               (cb'.state = StateClosed /\ cb'.failureCount = 0) ]_vars

\* maxFailures is 2: two failures opened the breaker with counter 2; after the
\* timeout a call passed the switch, and the breaker is HalfOpen with counter 0.
C37_Witness ==
    /\ cb.maxFailures = 2
    /\ streak = 2
    /\ opCalls = 2
    /\ cpc[1] = "admitted"
    /\ cb.state = StateHalfOpen
    /\ cb.failureCount = 0

\* C38: a call rejected with the circuit-open error leaves state, counter and time of
\* the last failure as they were; the time of the last failure changes only when an
\* executed operation fails, to the time of that failure; so a call made with the
\* breaker Open more than resetTimeout after the last executed failure is admitted,
\* however many calls were rejected in between.
C38_RejectionsLeaveBreakerUnchanged ==
    /\ [][ (nExec' # nExec /\ cret'[1] = ErrCircuitOpen) =>
               (cb' = cb /\ opCalls' = opCalls) ]_vars
    /\ [][ (cb'.lastFailureTime # cb.lastFailureTime) =>
               /\ cpc[1] = "running"
               /\ cret'[1] = OpFail
               /\ cb'.lastFailureTime = now ]_vars
    /\ [][ (nExec' # nExec /\ cb.state = StateOpen
              /\ now - cb.lastFailureTime > cb.resetTimeout) =>
               /\ cpc'[1] = "admitted"
               /\ cret'[1] # ErrCircuitOpen
               /\ cb'.state = StateHalfOpen ]_vars

\* maxFailures 1, resetTimeout 1: the operation failed at time 0, the calls at times
\* 0 and 1 were rejected, and the call at time 2 is admitted as the probe.
C38_Witness ==
    /\ cb.maxFailures = 1
    /\ cb.resetTimeout = 1
    /\ cb.lastFailureTime = 0
    /\ now = 2
    /\ opCalls = 1
    /\ nExec = 4
    /\ cpc[1] = "admitted"
    /\ cb.state = StateHalfOpen

(***************************************************************************)
(*     PROPERTIES OF hetzner.Client.executeWithRetry (SpecExecRetry)       *)
(***************************************************************************)

\* C39: in executeWithRetry the attempts and sleeps of the retry sequence neither
\* change the breaker nor enter it again, and run only inside an admitted Execute;
\* when the sequence ends the breaker records its result once: a sequence that
\* ended in success, after whatever failed attempts, leaves the breaker Closed with
\* counter 0; one that ended in an error adds exactly one failure, and a sequence
\* that ran out of retries made MaxRetries + 1 attempts; a call rejected by the Open
\* breaker invokes nothing: no attempt, no sleep, no change of the retry state.
C39_BreakerWrapsWholeRetrySequence ==
    /\ [][ (rHist' # rHist \/ rSleeps' # rSleeps \/ rpc' \in {"loop", "sleep"}) =>
               (cb' = cb /\ nExec' = nExec /\ opCalls' = opCalls) ]_vars
    /\ [] (rpc \in {"loop", "sleep"} => cpc[1] = "running")
    /\ [][ (cpc[1] = "running" /\ cpc'[1] = "idle") =>
               /\ rpc = "done"
               /\ rResult = RetNil =>
                    /\ cret'[1] = OpOK
                    /\ cb'.state = StateClosed
                    /\ cb'.failureCount = 0
               /\ rResult # RetNil =>
                    /\ cret'[1] = OpFail
                    /\ cb'.failureCount = cb.failureCount + 1
                    /\ cb'.lastFailureTime = now
               /\ rResult.kind = "maxRetries" => Len(rHist) = rcfg.MaxRetries + 1 ]_vars
    /\ [][ (nExec' # nExec /\ cb.state = StateOpen
              /\ now - cb.lastFailureTime <= cb.resetTimeout) =>
               /\ cret'[1] = ErrCircuitOpen
               /\ cpc'[1] = "idle"
               /\ cb' = cb
               /\ opCalls' = opCalls
               /\ UNCHANGED retryVars ]_vars

\* maxFailures 2, MaxRetries 2: the first call ran out of retries at time 1 and
\* counted as one failure; the second call failed twice, then succeeded, and the
\* breaker is Closed with counter 0.
C39_Witness ==
    /\ cb.maxFailures = 2
    /\ rcfg.MaxRetries = 2
    /\ nExec = 2
    /\ opCalls = 2
    /\ cb.lastFailureTime = 1
    /\ cpc[1] = "idle"
    /\ rpc = "done"
    /\ rResult = RetNil
    /\ rHist = <<ErrTimeout, ErrTimeout, OpOK>>
    /\ cret[1] = OpOK
    /\ cb.state = StateClosed
    /\ cb.failureCount = 0

\* C40: a pass that ended with phase "Ready" carries in its status the length of its
\* listing, the number of listed servers with status "running" and the listed names;
\* when its status update succeeded the stored status holds exactly these, so after
\* the pass the provider holds the published count plus the servers the pass
\* created minus those it deleted.
C40_PublishedCountsAreTheListing ==
    ( /\ pc = "done"
      /\ got = GetFound
      /\ ~np.deleting
      /\ calls.list = 1
      /\ np.phase = PhaseReady )
    =>
    ( /\ np.currentNodes = Len(servers)
      /\ np.readyNodes =
             Cardinality({i \in 1..Len(servers) : servers[i].status = "running"})
      /\ np.nodes = [i \in 1..Len(servers) |-> servers[i].id]
      /\ ret.err \in {ErrNone, ErrStatusUpdate}
      /\ ret.err = ErrNone =>
           /\ stStatus = [phase |-> PhaseReady, currentNodes |-> np.currentNodes,
                          readyNodes |-> np.readyNodes, nodes |-> np.nodes]
           /\ Len(cloud) = stStatus.currentNodes + calls.create - calls.delete )

\* A pass listed one server, created two and published: the stored status says one
\* node while the provider holds three.
C40_Witness ==
    /\ pc = "done"
    /\ got = GetFound
    /\ ~np.deleting
    /\ ret.err = ErrNone
    /\ Len(servers) = 1
    /\ calls = [list |-> 1, create |-> 2, delete |-> 0]
    /\ Len(cloud) = 3
    /\ stStatus.phase = PhaseReady
    /\ stStatus.currentNodes = 1
    /\ stStatus.nodes = <<1>>

====
